---- MODULE Spec2Model ----
(***************************************************************************)
(* Model of the client connection cache of sshutil (src/sshutil/conn.py):  *)
(* the class-level pool SSHConnection.ssh_sockets, the reverse map         *)
(* ssh_socket_keys, the deferred-close timer map ssh_socket_timeout and    *)
(* the mutex ssh_sockets_lock, together with the client sessions that      *)
(* borrow transports from it.                                              *)
(*                                                                         *)
(* Session objects carry no identity beyond their fields, so the set of    *)
(* constructed sessions is kept as a bag of records.  Socket and Timer     *)
(* objects are named by the smallest number no live object uses.           *)
(***************************************************************************)
EXTENDS Integers, Sequences, FiniteSets, TLC

\* ---------------------------------------------------------------- bounds
\* Number of session objects that may be constructed.
MaxSessions == 3
\* The same when every session uses one endpoint and nothing fails.
MaxCapSessions == 9
\* Number of close() calls made on sessions that are already closed.
MaxReclose == 1
\* Number of flush() calls.
MaxFlush == 1
\* Number of failures the environment injects (dial, handshake,
\* authentication, open_session, Transport.close()).
MaxFaults == 1
\* Number of TCP connections the server side sees (accepted or call-home).
MaxConns == 2
\* Number of channels clients open on the server's transports.
MaxChans == 1
\* Number of failures injected on the server side.
MaxSrvFaults == 1
\* Number of run_status_stderr calls.
MaxRuns == 2
\* Number of 16 KiB chunks a command writes to stdout, and to stderr.
MaxChunks == 1
\* Number of keys the SSH agent holds.
MaxKeys == 2
\* Number of addresses getaddrinfo returns.
MaxAddrs == 3
\* Number of clients for which a server socket is constructed.
MaxClients == 3
\* Number of non-empty reads the reader thread of a server session makes.
MaxReads == 2
\* Number of close() calls made on a server session from outside.
MaxCloses == 2
\* Number of reads of a channel whose results are laid down in advance.
MaxScript == 4
\* Number of close() calls, and of join() calls, made on one server.
MaxServerCalls == 2
\* Number of chunks the remote command writes to stdout, and to stderr.
MaxOutput == 4
\* Number of unread chunks the channel's flow-control window admits.
MaxWindow == 2

\* ------------------------------------------------------ program constants
MAXCHANNELS == 8
MAXSSHBUF == 16384

\* Endpoint keys "{host}:{port}:{username}" the callers use.
Keys == {"a:22:u", "b:22:u"}

\* The null handle (Python None).
None == 0

VARIABLES
    ssh_sockets,        \* key -> sequence of entries <<ossock, sshsock, count>>
    ssh_socket_keys,    \* sshsock -> key
    ssh_socket_timeout, \* sshsock -> the threading.Timer recorded for it, given
                        \* by its state: "started" (waiting) or "fired"
    ssh_sockets_lock,   \* TRUE while a get_ssh_socket holds the mutex
    timers,             \* bag of live Timer threads no longer in the timer
                        \* map: records [sock, state]
    os_open,            \* byte streams (ossock) that are open
    ssh_open,           \* authenticated transports (sshsock) not yet closed
    sessions,           \* bag of session objects [pc, key, chan, ssh, tmp, released]
    nsessions,          \* number of session objects constructed
    nreclose,           \* close() calls made so far on closed sessions
    nfaults,            \* failures injected so far
    nflush,             \* flush() calls made so far
    ossock,             \* local ossock of the get_ssh_socket holding the mutex
    pre,                \* the three maps as that get_ssh_socket found them
    \* ---- the server (src/sshutil/server.py)
    srv_pc,             \* where the thread that owns the SSHServerAny object is
    bind_error,         \* errno of the socket.error the second bind raised
    threads,            \* self.threads: sequence of accept threads
    apc,                \* accept thread -> position in _accept_socket_thread
    acur,               \* accept thread -> its local sock
    asnap,              \* accept thread -> its local sockets, the list as copied
    signal,             \* accept threads whose close pipe holds a byte
    listening,          \* accept threads whose listen socket is open
    pipes,              \* accept threads whose close pipe (read end) is open
    lock,               \* holder of the server's self.lock
    sockets,            \* self.sockets: sequence of server sockets
    ss,                 \* server socket -> its fields and its channel thread
    srvsessions,        \* server session -> [sock, stream]
    ch_pc,              \* where the thread calling call_home is
    ch_cur,             \* the server socket call_home is constructing
    nconns,             \* TCP connections made so far (accepted or call-home)
    nsrvfaults,         \* failures injected so far on the server side
    \* ---- one-shot commands (src/sshutil/cmd.py)
    run,                \* the run_status_stderr call in progress, or the last one
    \* ---- parts of get_ssh_socket and of the server taken on their own
    auth,               \* the authentication block of one get_ssh_socket call
    ctl,                \* the SSHUserPassController and the last request made of it
    dial,               \* the connect loop of one get_ssh_socket call
    ctor,               \* SSHServerSocket.__init__ for the accepted clients
    sess,               \* one SSHServerSession, its reader thread and a recv caller
    rd,                 \* one read_to_eof generator and the reads of its channel
    closers,            \* one client session closed by two threads at once
    flow,               \* one command, the remote process and the channel window
    shutdown            \* a server's thread list under a sequence of close() and join() calls

\* The state of the client side and of the server side.
client == <<ssh_sockets, ssh_socket_keys, ssh_socket_timeout, ssh_sockets_lock,
            timers, os_open, ssh_open, sessions, nsessions, nreclose, nfaults,
            nflush, ossock, pre>>
server == <<srv_pc, bind_error, threads, apc, acur, signal, listening, pipes, lock,
            sockets, ss, srvsessions, ch_pc, ch_cur, nconns, nsrvfaults, asnap>>

\* The parts taken on their own.
units == <<auth, ctl, dial, ctor, sess, rd, closers, flow, shutdown>>

vars == <<client, server, run, units>>

cache == <<ssh_sockets, ssh_socket_keys, ssh_socket_timeout>>
\* The contents of the three maps: the timer map by the sockets it records.
Maps == <<ssh_sockets, ssh_socket_keys, DOMAIN ssh_socket_timeout>>
sockstate == <<os_open, ssh_open>>
counters == <<nsessions, nreclose, nfaults, nflush>>

\* ---------------------------------------------------------------- helpers
\* Python dict operations on functions with a varying domain.
DictSet(d, k, v) == [x \in DOMAIN d \cup {k} |-> IF x = k THEN v ELSE d[x]]
DictDel(d, k) == [x \in DOMAIN d \ {k} |-> d[x]]
EmptyDict == [x \in {} |-> None]

\* Removal of the element at position i of a list.
RemoveAt(seq, i) == [j \in 1..(Len(seq) - 1) |-> IF j < i THEN seq[j] ELSE seq[j + 1]]

Min(S) == CHOOSE x \in S : \A y \in S : x <= y

\* Bags of session records: record -> number of objects in that state.
BagAdd(b, r) == IF r \in DOMAIN b THEN [b EXCEPT ![r] = @ + 1] ELSE DictSet(b, r, 1)
BagRemove(b, r) == IF b[r] > 1 THEN [b EXCEPT ![r] = @ - 1] ELSE DictDel(b, r)
BagReplace(b, r, q) == BagAdd(BagRemove(b, r), q)

\* Number of objects of the bag whose record is in S.
RECURSIVE BagCount(_, _)
BagCount(b, S) ==
    IF S = {} THEN 0
    ELSE LET r == CHOOSE x \in S : TRUE
         IN  b[r] + BagCount(b, S \ {r})

\* Every entry of the pool, with its key.
PoolEntries == UNION {{<<k, ssh_sockets[k][i]>> : i \in 1..Len(ssh_sockets[k])} :
                      k \in DOMAIN ssh_sockets}

\* Positions in the list of key k whose entry holds transport t.
EntryIndexes(k, t) == {i \in 1..Len(ssh_sockets[k]) : ssh_sockets[k][i][2] = t}

\* Socket objects something still refers to.
LiveSocks ==
    os_open \cup ssh_open \cup DOMAIN ssh_socket_keys \cup DOMAIN ssh_socket_timeout
    \cup {e[2][2] : e \in PoolEntries} \cup {tm.sock : tm \in DOMAIN timers}
    \cup {r.ssh : r \in DOMAIN sessions} \cup {r.tmp : r \in DOMAIN sessions}
    \cup {ossock}

\* Identity of a new socket object, distinct from every live one.
NewSock == Min({i \in 1..(Cardinality(LiveSocks) + 1) : i \notin LiveSocks})

NoPre == <<>>

\* The accept threads a server starts: one per address family.
AThreads == {"v6", "v4"}

\* A threading.Lock nobody holds.
Free == "free"

\* No socket.error was raised.
NoError == "none"

\* self.exit_code = None
NoExit == -1

\* SSHCommand.__init__: no exit code yet, output and error_output empty; no
\* call of run_status_stderr so far.  out_left and err_left are the chunks
\* the channel still holds of the command's stdout and stderr, output and
\* error_output the chunks joined so far, out_eof and err_eof whether the
\* read that returned nothing was made.
NewRun ==
    [pc |-> "idle", n |-> 0, result |-> "none", exit_code |-> NoExit,
     out_left |-> 0, err_left |-> 0, output |-> 0, error_output |-> 0,
     out_eof |-> FALSE, err_eof |-> FALSE,
     caller |-> "run_status_stderr", outcome |-> [kind |-> "none"]]

\* No authentication block is being followed.
NoAuth ==
    [pc |-> "idle", password |-> "none", keys |-> <<>>, idx |-> 0,
     authenticated |-> FALSE, attempts |-> <<>>, swallowed |-> <<>>,
     result |-> "none", raised_by |-> <<"none", 0>>]

\* No request made yet.
NoRequest == [call |-> "none", args |-> <<>>, result |-> "none"]

\* No controller constructed yet.
NoController == [username |-> "None", password |-> "None", event |-> FALSE,
                 made |-> FALSE, last |-> NoRequest]

\* No connect loop is being followed: attempt = 0, error = None.
NoDial ==
    [pc |-> "idle", addrs |-> <<>>, idx |-> 0, tried |-> <<>>, attempt |-> 0,
     error |-> "None", ossock |-> None, result |-> "none"]

\* No server socket is under construction and no client was accepted.
NoCtor ==
    [pc |-> "idle", n |-> 0, client_socket |-> None, ssh |-> FALSE,
     raised |-> "None", open |-> {}]

\* No server session has been constructed.
NoSession ==
    [stream |-> FALSE, chan |-> "none", reader_thread |-> FALSE, keep_running |-> FALSE,
     rpc |-> "none", closed |-> FALSE, way |-> "none", exits |-> 0, nreads |-> 0,
     cpc |-> "idle", result |-> "none", ncloses |-> 0, late |-> FALSE]

\* No read_to_eof generator is running.
NoRead == [pc |-> "idle", script |-> <<>>, reads |-> 0, out |-> <<>>, output |-> 0]

\* The threads that call close() on the one session.
Closers == {"t1", "t2"}

\* No session for them yet.
NoClosers ==
    [made |-> FALSE, chan |-> FALSE, ssh |-> FALSE, count |-> 0, first |-> 0,
     pc |-> [t \in Closers |-> "idle"], tmp |-> [t \in Closers |-> FALSE],
     chan_closes |-> 0, releases |-> 0]

\* No command with a remote process is running.
NoFlow ==
    [pc |-> "idle", out_todo |-> 0, err_todo |-> 0, out_buf |-> 0, err_buf |-> 0,
     exited |-> FALSE, output |-> 0, error_output |-> 0]

\* No server for the sequence of close() and join() calls yet.
NoShut ==
    [made |-> FALSE, threads |-> <<>>, alive |-> {}, signal |-> {}, pc |-> "idle",
     ncloses |-> 0, njoins |-> 0, died |-> 0, failed |-> FALSE]

\* ------------------------------------------------------------------ Init
\* The class attributes as the class statement leaves them; no session yet.
Init ==
    /\ ssh_sockets = EmptyDict
    /\ ssh_socket_keys = EmptyDict
    /\ ssh_socket_timeout = EmptyDict
    /\ ssh_sockets_lock = FALSE
    /\ timers = EmptyDict
    /\ os_open = {}
    /\ ssh_open = {}
    /\ sessions = EmptyDict
    /\ nsessions = 0
    /\ nreclose = 0
    /\ nfaults = 0
    /\ nflush = 0
    /\ ossock = None
    /\ pre = NoPre
    /\ srv_pc = "new"
    /\ bind_error = NoError
    /\ threads = <<>>
    /\ apc = [th \in AThreads |-> "unstarted"]
    /\ acur = [th \in AThreads |-> None]
    /\ asnap = [th \in AThreads |-> {}]
    /\ signal = {}
    /\ listening = {}
    /\ pipes = {}
    /\ lock = Free
    /\ sockets = <<>>
    /\ ss = EmptyDict
    /\ srvsessions = EmptyDict
    /\ ch_pc = "idle"
    /\ ch_cur = None
    /\ nconns = 0
    /\ nsrvfaults = 0
    /\ run = NewRun
    /\ auth = NoAuth
    /\ ctl = NoController
    /\ dial = NoDial
    /\ ctor = NoCtor
    /\ sess = NoSession
    /\ rd = NoRead
    /\ closers = NoClosers
    /\ flow = NoFlow
    /\ shutdown = NoShut

\* SSHConnection.__init__ up to the call of get_ssh_socket.
NewSession(k) ==
    [pc |-> "new", key |-> k, chan |-> FALSE, ssh |-> None, tmp |-> None, released |-> 0]

\* ---------------------------------------------------------------- timers
\* A Timer thread that left the timer map while still alive.
Detached(t, state) == [sock |-> t, state |-> state]

\* threading.Timer.cancel(): a timer still waiting never calls its function;
\* one whose function was already called is not stopped and lives on.
TimerCancel(ts, t, state) == IF state = "fired" THEN BagAdd(ts, Detached(t, state)) ELSE ts

\* threading.Timer(1, cls._close_socket_expire, [ssh_socket, debug]).start()
TimerStart(t) == DictSet(ssh_socket_timeout, t, "started")

\* Mutation: the pending timer is left in the map.
cancel_close_socket_expire_skip(t) == UNCHANGED <<ssh_socket_timeout, timers>>

\* cancel_close_socket_expire: must enter locked.
cancel_close_socket_expire(t) ==
    IF t = None \/ t \notin DOMAIN ssh_socket_timeout
    THEN UNCHANGED <<ssh_socket_timeout, timers>>
    ELSE /\ ssh_socket_timeout' = DictDel(ssh_socket_timeout, t)
         /\ timers' = TimerCancel(timers, t, ssh_socket_timeout[t])

\* ------------------------------------------------------- get_ssh_socket
\* Mutation: the cap test stops one channel short.
HasFreeChannelShort(entry) == entry[3] < MAXCHANNELS - 1

\* Mutation: the cap test lets one channel too many through.
HasFreeChannelInclusive(entry) == entry[3] <= MAXCHANNELS

\* entry[2] < MAXCHANNELS
HasFreeChannel(entry) == entry[3] < MAXCHANNELS

\* The entries of key k the first-fit loop may take.
FreeEntries(k) ==
    IF k \in DOMAIN ssh_sockets
    THEN {i \in 1..Len(ssh_sockets[k]) : HasFreeChannel(ssh_sockets[k][i])}
    ELSE {}

\* Mutation: a reused entry is handed out without being counted.
UseEntryUncounted(entry) == entry

\* entry[2] += 1
UseEntry(entry) == <<entry[1], entry[2], entry[3] + 1>>

\* cls.ssh_sockets[key].append([ossock, sshsock, 1]) after creating the list
PoolAppend(pool, k, os, t) ==
    DictSet(pool, k, Append(IF k \in DOMAIN pool THEN pool[k] ELSE <<>>, <<os, t, 1>>))

\* SSHConnection.__init__ calling get_ssh_socket, which finds an entry with a
\* free channel: the whole call runs under the mutex.
GetReuse(k) ==
    /\ ~ssh_sockets_lock
    /\ FreeEntries(k) # {}
    /\ LET i == Min(FreeEntries(k))
           t == ssh_sockets[k][i][2]
       IN  /\ ssh_sockets' = [ssh_sockets EXCEPT ![k][i] = UseEntry(@)]
           /\ cancel_close_socket_expire(t)
           /\ sessions' = BagAdd(sessions, [NewSession(k) EXCEPT !.pc = "got", !.ssh = t])
    /\ nsessions' = nsessions + 1
    /\ UNCHANGED <<ssh_socket_keys, ssh_sockets_lock, sockstate, nreclose, nfaults,
                   ossock, pre, nflush>>

\* get_ssh_socket finds no entry with a free channel and goes on to dial,
\* still holding the mutex.
GetMiss(k) ==
    /\ ~ssh_sockets_lock
    /\ FreeEntries(k) = {}
    /\ ssh_sockets_lock' = TRUE
    /\ pre' = Maps
    /\ sessions' = BagAdd(sessions, [NewSession(k) EXCEPT !.pc = "dialing"])
    /\ nsessions' = nsessions + 1
    /\ UNCHANGED <<cache, timers, sockstate, nreclose, nfaults, ossock, nflush>>

\* The getaddrinfo/connect loop: some address connects.
GetDialOk(r) ==
    /\ r \in DOMAIN sessions
    /\ r.pc = "dialing"
    /\ ossock' = NewSock
    /\ os_open' = os_open \cup {NewSock}
    /\ sessions' = BagReplace(sessions, r, [r EXCEPT !.pc = "handshake"])
    /\ UNCHANGED <<cache, ssh_sockets_lock, timers, ssh_open, counters, pre>>

\* The getaddrinfo/connect loop: resolution fails or no address connects; the
\* error is re-raised out of the with block.
GetDialFail(r) ==
    /\ r \in DOMAIN sessions
    /\ r.pc = "dialing"
    /\ nfaults < MaxFaults
    /\ nfaults' = nfaults + 1
    /\ ssh_sockets_lock' = FALSE
    /\ sessions' = BagReplace(sessions, r, [r EXCEPT !.pc = "failed"])
    /\ pre' = NoPre
    /\ UNCHANGED <<cache, timers, sockstate, nsessions, nreclose, ossock, nflush>>

\* What the handshake and authentication block can end with.
AuthOutcomes == {"ok", "AuthenticationException", "SSHException", "AssertionError"}

\* State of the byte stream when the block is left: only the handler of
\* AuthenticationException closes it.
OsOpenAfter(outcome, os) ==
    IF outcome = "AuthenticationException" THEN os_open \ {os} ELSE os_open

\* Mutation: the entry is appended before the handshake and authentication.
PoolAfterEarly(outcome, k, os, t) == PoolAppend(ssh_sockets, k, os, t)

\* The pool after the block: the entry is appended as its last statement.
PoolAfter(outcome, k, os, t) ==
    IF outcome = "ok" THEN PoolAppend(ssh_sockets, k, os, t) ELSE ssh_sockets

\* Mutation: the reverse mapping of the new transport is not recorded.
KeysAfterUnset(outcome, k, t) == ssh_socket_keys

\* The reverse map after the block.
KeysAfter(outcome, k, t) ==
    IF outcome = "ok" THEN DictSet(ssh_socket_keys, t, k) ELSE ssh_socket_keys

\* Transport(ossock), start_client, authentication, then the insertion.
GetAuth(r, outcome) ==
    /\ r \in DOMAIN sessions
    /\ r.pc = "handshake"
    /\ LET t == ossock
       IN  /\ ssh_sockets' = PoolAfter(outcome, r.key, ossock, t)
           /\ ssh_socket_keys' = KeysAfter(outcome, r.key, t)
           /\ os_open' = OsOpenAfter(outcome, ossock)
           /\ ssh_open' = IF outcome = "ok" THEN ssh_open \cup {t} ELSE ssh_open
           /\ sessions' = BagReplace(sessions, r,
                             IF outcome = "ok" THEN [r EXCEPT !.pc = "got", !.ssh = t]
                                               ELSE [r EXCEPT !.pc = "failed"])
    /\ ssh_sockets_lock' = FALSE
    /\ ossock' = None
    /\ pre' = NoPre
    /\ UNCHANGED <<ssh_socket_timeout, timers, nsessions, nreclose, nflush>>

GetAuthOk(r) ==
    /\ GetAuth(r, "ok")
    /\ UNCHANGED nfaults

GetAuthFail(r) ==
    /\ nfaults < MaxFaults
    /\ nfaults' = nfaults + 1
    /\ \E outcome \in AuthOutcomes \ {"ok"} : GetAuth(r, outcome)

\* ------------------------------------------------------------- sessions
\* self.chan = self.ssh.open_session() succeeds.
OpenSessionOk(r) ==
    /\ r \in DOMAIN sessions
    /\ r.pc = "got"
    /\ sessions' = BagReplace(sessions, r, [r EXCEPT !.pc = "open", !.chan = TRUE])
    /\ UNCHANGED <<cache, ssh_sockets_lock, timers, sockstate, counters, ossock, pre>>

\* Mutation: close() releases self.ssh without clearing the field.
CloseBeginKeepsHandle(r) ==
    IF r.ssh # None
    THEN [r EXCEPT !.chan = FALSE, !.tmp = r.ssh, !.pc = "releasing"]
    ELSE [r EXCEPT !.chan = FALSE]

\* The part of close() before release_ssh_socket:
\*   self.chan.close(); self.chan = None; tmp = self.ssh; self.ssh = None
CloseBegin(r) ==
    IF r.ssh # None
    THEN [r EXCEPT !.chan = FALSE, !.tmp = r.ssh, !.ssh = None, !.pc = "releasing"]
    ELSE [r EXCEPT !.chan = FALSE]

\* self.ssh.open_session() raises: __init__ calls self.close() and re-raises.
OpenSessionFail(r) ==
    /\ r \in DOMAIN sessions
    /\ r.pc = "got"
    /\ nfaults < MaxFaults
    /\ nfaults' = nfaults + 1
    /\ sessions' = BagReplace(sessions, r, CloseBegin(r))
    /\ UNCHANGED <<cache, ssh_sockets_lock, timers, sockstate, nsessions, nreclose,
                   ossock, pre, nflush>>

\* close() called on an open session.
Close(r) ==
    /\ r \in DOMAIN sessions
    /\ r.pc = "open"
    /\ sessions' = BagReplace(sessions, r, CloseBegin(r))
    /\ UNCHANGED <<cache, ssh_sockets_lock, timers, sockstate, counters, ossock, pre>>

\* close() called again (by the caller or by __del__) on a session that was
\* closed before.
CloseAgain(r) ==
    /\ r \in DOMAIN sessions
    /\ r.pc = "closed"
    /\ nreclose < MaxReclose
    /\ nreclose' = nreclose + 1
    /\ sessions' = BagReplace(sessions, r, CloseBegin(r))
    /\ UNCHANGED <<cache, ssh_sockets_lock, timers, sockstate, nsessions, nfaults,
                   ossock, pre, nflush>>

\* ---------------------------------------------------- release_ssh_socket
\* entry[2] -= 1
Decrement(entry) == <<entry[1], entry[2], entry[3] - 1>>

\* Mutation: release never schedules the deferred close.
NeedsTimerNever(t) == FALSE

\* if ssh_socket not in cls.ssh_socket_timeout
NeedsTimer(t) == t \notin DOMAIN ssh_socket_timeout

\* Mutation: the release that brings the count to 0 closes the sockets and
\* drops the entry at once.
release_ssh_socket_sync(t) ==
    IF t \notin DOMAIN ssh_socket_keys \/ EntryIndexes(ssh_socket_keys[t], t) = {}
    THEN UNCHANGED <<cache, timers, sockstate>>
    ELSE LET key == ssh_socket_keys[t]
             i == Min(EntryIndexes(key, t))
             entry == Decrement(ssh_sockets[key][i])
         IN  IF entry[3] = 0
             THEN /\ ssh_sockets' = [ssh_sockets EXCEPT ![key] = RemoveAt(@, i)]
                  /\ ssh_socket_keys' = DictDel(ssh_socket_keys, t)
                  /\ ssh_open' = ssh_open \ {entry[2]}
                  /\ os_open' = os_open \ {entry[1]}
                  /\ UNCHANGED <<ssh_socket_timeout, timers>>
             ELSE /\ ssh_sockets' = [ssh_sockets EXCEPT ![key][i] = entry]
                  /\ UNCHANGED <<ssh_socket_keys, ssh_socket_timeout, timers, sockstate>>

\* release_ssh_socket raises KeyError: cls.ssh_socket_keys[ssh_socket] has
\* no such key, or no entry of the list holds the socket.
ReleaseRaises(t) ==
    t \notin DOMAIN ssh_socket_keys \/ EntryIndexes(ssh_socket_keys[t], t) = {}

\* release_ssh_socket(ssh_socket), all of it under the mutex.  A socket that
\* is not in the reverse map, or has no entry, raises KeyError before any
\* change.
release_ssh_socket(t) ==
    IF ReleaseRaises(t)
    THEN UNCHANGED <<cache, timers, sockstate>>
    ELSE LET key == ssh_socket_keys[t]
             i == Min(EntryIndexes(key, t))
             entry == Decrement(ssh_sockets[key][i])
         IN  /\ ssh_sockets' = [ssh_sockets EXCEPT ![key][i] = entry]
             /\ IF entry[3] = 0 /\ NeedsTimer(t)
                THEN ssh_socket_timeout' = TimerStart(t)
                ELSE UNCHANGED ssh_socket_timeout
             /\ UNCHANGED timers
             /\ UNCHANGED <<ssh_socket_keys, sockstate>>

\* The release_ssh_socket(tmp) call that ends close().
Release(r) ==
    /\ r \in DOMAIN sessions
    /\ r.pc = "releasing"
    /\ ~ssh_sockets_lock
    /\ release_ssh_socket(r.tmp)
    /\ sessions' = BagReplace(sessions, r,
                      [r EXCEPT !.pc = "closed", !.tmp = None, !.released = @ + 1])
    /\ UNCHANGED <<ssh_sockets_lock, counters, ossock, pre>>

\* ------------------------------------------------- deferred close timers
\* The wait of the Timer recorded for t ends without cancel() having been
\* called: its thread calls _close_socket_expire, which waits for the mutex.
TimerFire(t) ==
    /\ t \in DOMAIN ssh_socket_timeout
    /\ ssh_socket_timeout[t] = "started"
    /\ ssh_socket_timeout' = [ssh_socket_timeout EXCEPT ![t] = "fired"]
    /\ UNCHANGED <<ssh_sockets, ssh_socket_keys, ssh_sockets_lock, timers, sockstate,
                   sessions, counters, ossock, pre>>

\* The same for a Timer that is no longer in the map and was not cancelled.
TimerFireDetached(tm) ==
    /\ tm \in DOMAIN timers
    /\ tm.state = "started"
    /\ timers' = BagReplace(timers, tm, [tm EXCEPT !.state = "fired"])
    /\ UNCHANGED <<cache, ssh_sockets_lock, sockstate, sessions, counters, ossock, pre>>

\* Mutation: the sockets are closed but the entry stays in the pool.
close_socket_keeps_entry(t, raises) ==
    /\ ssh_open' = ssh_open \ {t}
    /\ os_open' = os_open \ {t}
    /\ ssh_socket_keys' = DictDel(ssh_socket_keys, t)
    /\ UNCHANGED ssh_sockets

\* _close_socket: close transport and byte stream, then (finally) drop the
\* reverse mapping and the entry.  raises: entry[1].close() raised, so the
\* byte stream is not reached.
\* A socket missing from the reverse map raises KeyError, which is logged,
\* and again in the finally clause, which leaves everything as it was.
close_socket(t, raises) ==
    IF t \notin DOMAIN ssh_socket_keys
    THEN UNCHANGED <<ssh_sockets, ssh_socket_keys, sockstate>>
    ELSE IF EntryIndexes(ssh_socket_keys[t], t) = {}
    THEN \* assert False is caught; entry is the last one the loop visited
         LET key == ssh_socket_keys[t]
         IN  /\ ssh_socket_keys' = DictDel(ssh_socket_keys, t)
             /\ ssh_sockets' = IF Len(ssh_sockets[key]) > 0
                               THEN [ssh_sockets EXCEPT ![key] = RemoveAt(@, Len(@))]
                               ELSE ssh_sockets
             /\ UNCHANGED sockstate
    ELSE LET key == ssh_socket_keys[t]
             i == Min(EntryIndexes(key, t))
             entry == ssh_sockets[key][i]
         IN  /\ ssh_open' = ssh_open \ {entry[2]}
             /\ os_open' = IF raises THEN os_open ELSE os_open \ {entry[1]}
             /\ ssh_socket_keys' = DictDel(ssh_socket_keys, t)
             /\ ssh_sockets' = [ssh_sockets EXCEPT ![key] = RemoveAt(@, i)]

\* Mutation: the callback does not re-check the timer map.
StillScheduledUnchecked(t) == TRUE

\* not (ssh_socket not in cls.ssh_socket_timeout)
StillScheduled(t) == t \in DOMAIN ssh_socket_timeout

\* Mutation: the Timer stays recorded for the socket that is closed.
ExpireBodyKeepsTimer(t) ==
    /\ UNCHANGED <<ssh_socket_timeout, nfaults>>
    /\ close_socket(t, FALSE)

\* The body of _close_socket_expire under the mutex once the presence check
\* passed: del cls.ssh_socket_timeout[ssh_socket]; cls._close_socket(...)
ExpireBody(t) ==
    /\ ssh_socket_timeout' = DictDel(ssh_socket_timeout, t)
    /\ \E raises \in BOOLEAN :
          /\ raises => nfaults < MaxFaults
          /\ nfaults' = IF raises THEN nfaults + 1 ELSE nfaults
          /\ close_socket(t, raises)

\* _close_socket_expire run by the Timer that the map records for t.
Expire(t) ==
    /\ t \in DOMAIN ssh_socket_timeout
    /\ ssh_socket_timeout[t] = "fired"
    /\ ~ssh_sockets_lock
    /\ StillScheduled(t)
    /\ ExpireBody(t)
    /\ UNCHANGED <<ssh_sockets_lock, timers, sessions, nsessions, nreclose, ossock, pre, nflush>>

\* _close_socket_expire run by a Timer that was cancelled after it fired and
\* finds nothing recorded for its socket: it returns.
ExpireCancelled(tm) ==
    /\ tm \in DOMAIN timers
    /\ tm.state = "fired"
    /\ ~ssh_sockets_lock
    /\ ~StillScheduled(tm.sock)
    /\ timers' = BagRemove(timers, tm)
    /\ UNCHANGED <<cache, ssh_sockets_lock, sockstate, sessions, counters, ossock, pre>>

\* _close_socket_expire run by a Timer that was cancelled after it fired and
\* finds a later Timer recorded for its socket: the presence check passes.
\* The recorded Timer is dropped from the map without being cancelled.
ExpireStale(tm) ==
    /\ tm \in DOMAIN timers
    /\ tm.state = "fired"
    /\ ~ssh_sockets_lock
    /\ StillScheduled(tm.sock)
    /\ timers' = IF tm.sock \in DOMAIN ssh_socket_timeout
                  THEN BagReplace(timers, tm, Detached(tm.sock, ssh_socket_timeout[tm.sock]))
                  ELSE BagRemove(timers, tm)
    /\ ExpireBody(tm.sock)
    /\ UNCHANGED <<ssh_sockets_lock, sessions, nsessions, nreclose, ossock, pre, nflush>>

\* ------------------------------------------------------------------ Next
Next ==
    \/ \E k \in Keys : nsessions < MaxSessions /\ GetReuse(k) /\ UNCHANGED <<server, run, units>>
    \/ \E k \in Keys : nsessions < MaxSessions /\ GetMiss(k) /\ UNCHANGED <<server, run, units>>
    \/ \E r \in DOMAIN sessions : GetDialOk(r) /\ UNCHANGED <<server, run, units>>
    \/ \E r \in DOMAIN sessions : GetDialFail(r) /\ UNCHANGED <<server, run, units>>
    \/ \E r \in DOMAIN sessions : GetAuthOk(r) /\ UNCHANGED <<server, run, units>>
    \/ \E r \in DOMAIN sessions : GetAuthFail(r) /\ UNCHANGED <<server, run, units>>
    \/ \E r \in DOMAIN sessions : OpenSessionOk(r) /\ UNCHANGED <<server, run, units>>
    \/ \E r \in DOMAIN sessions : OpenSessionFail(r) /\ UNCHANGED <<server, run, units>>
    \/ \E r \in DOMAIN sessions : Close(r) /\ UNCHANGED <<server, run, units>>
    \/ \E r \in DOMAIN sessions : CloseAgain(r) /\ UNCHANGED <<server, run, units>>
    \/ \E r \in DOMAIN sessions : Release(r) /\ UNCHANGED <<server, run, units>>
    \/ \E t \in DOMAIN ssh_socket_timeout : TimerFire(t) /\ UNCHANGED <<server, run, units>>
    \/ \E tm \in DOMAIN timers : TimerFireDetached(tm) /\ UNCHANGED <<server, run, units>>
    \/ \E t \in DOMAIN ssh_socket_timeout : Expire(t) /\ UNCHANGED <<server, run, units>>
    \/ \E tm \in DOMAIN timers : ExpireCancelled(tm) /\ UNCHANGED <<server, run, units>>
    \/ \E tm \in DOMAIN timers : ExpireStale(tm) /\ UNCHANGED <<server, run, units>>

Spec == Init /\ [][Next]_vars

\* Many sessions to one endpoint, with no failure: the runs that fill a
\* transport's channels.
CapKey == "a:22:u"

NextCap ==
    \/ nsessions < MaxCapSessions /\ GetReuse(CapKey) /\ UNCHANGED <<server, run, units>>
    \/ nsessions < MaxCapSessions /\ GetMiss(CapKey) /\ UNCHANGED <<server, run, units>>
    \/ \E r \in DOMAIN sessions : GetDialOk(r) /\ UNCHANGED <<server, run, units>>
    \/ \E r \in DOMAIN sessions : GetAuthOk(r) /\ UNCHANGED <<server, run, units>>
    \/ \E r \in DOMAIN sessions : OpenSessionOk(r) /\ UNCHANGED <<server, run, units>>
    \/ \E r \in DOMAIN sessions : Close(r) /\ UNCHANGED <<server, run, units>>
    \/ \E r \in DOMAIN sessions : Release(r) /\ UNCHANGED <<server, run, units>>
    \/ \E t \in DOMAIN ssh_socket_timeout : TimerFire(t) /\ UNCHANGED <<server, run, units>>
    \/ \E tm \in DOMAIN timers : TimerFireDetached(tm) /\ UNCHANGED <<server, run, units>>
    \/ \E t \in DOMAIN ssh_socket_timeout : Expire(t) /\ UNCHANGED <<server, run, units>>
    \/ \E tm \in DOMAIN timers : ExpireCancelled(tm) /\ UNCHANGED <<server, run, units>>
    \/ \E tm \in DOMAIN timers : ExpireStale(tm) /\ UNCHANGED <<server, run, units>>

SpecCap == Init /\ [][NextCap]_vars

\* Timers elapse and their threads get the mutex once it is free.
Fairness ==
    /\ WF_vars(\E t \in DOMAIN ssh_socket_timeout : TimerFire(t) /\ UNCHANGED <<server, run, units>>)
    /\ WF_vars(\E tm \in DOMAIN timers : TimerFireDetached(tm) /\ UNCHANGED <<server, run, units>>)
    /\ WF_vars(\E t \in DOMAIN ssh_socket_timeout : Expire(t) /\ UNCHANGED <<server, run, units>>)
    /\ WF_vars(\E tm \in DOMAIN timers : ExpireCancelled(tm) /\ UNCHANGED <<server, run, units>>)
    /\ WF_vars(\E tm \in DOMAIN timers : ExpireStale(tm) /\ UNCHANGED <<server, run, units>>)

SpecLive == Spec /\ Fairness

\* Mutation: flush leaves the transports that are in use alone.
FlushIdleOnly ==
    /\ ~ssh_sockets_lock
    /\ nflush < MaxFlush
    /\ nflush' = nflush + 1
    /\ LET idle == {e \in PoolEntries : e[2][3] = 0}
       IN  /\ ssh_open' = ssh_open \ {e[2][2] : e \in idle}
           /\ os_open' = os_open \ {e[2][1] : e \in idle}
           /\ ssh_sockets' = [k \in DOMAIN ssh_sockets |->
                                 SelectSeq(ssh_sockets[k], LAMBDA en : en[3] # 0)]
           /\ ssh_socket_keys' = [t \in DOMAIN ssh_socket_keys \ {e[2][2] : e \in idle}
                                     |-> ssh_socket_keys[t]]
    /\ ssh_socket_timeout' = EmptyDict
    /\ timers' = timers
    /\ UNCHANGED <<ssh_sockets_lock, sessions, nsessions, nreclose, nfaults, ossock, pre>>

\* The timers of the map after cancel(): those that had fired live on.
RECURSIVE CancelAll(_, _)
CancelAll(ts, S) ==
    IF S = {} THEN ts
    ELSE LET t == CHOOSE x \in S : TRUE
         IN  CancelAll(TimerCancel(ts, t, ssh_socket_timeout[t]), S \ {t})

\* flush(): under the mutex cancel every pending timer, close every
\* transport and byte stream, clear the three maps.
Flush ==
    /\ ~ssh_sockets_lock
    /\ nflush < MaxFlush
    /\ nflush' = nflush + 1
    /\ timers' = CancelAll(timers, DOMAIN ssh_socket_timeout)
    /\ ssh_open' = ssh_open \ {e[2][2] : e \in PoolEntries}
    /\ os_open' = os_open \ {e[2][1] : e \in PoolEntries}
    /\ ssh_sockets' = EmptyDict
    /\ ssh_socket_keys' = EmptyDict
    /\ ssh_socket_timeout' = EmptyDict
    /\ UNCHANGED <<ssh_sockets_lock, sessions, nsessions, nreclose, nfaults, ossock, pre>>

NextFlush == Next \/ (Flush /\ UNCHANGED <<server, run, units>>)

SpecFlush == Init /\ [][NextFlush]_vars


\* ------------------------------------------- dialing in get_ssh_socket
\* The socket.error an address may answer socket()/connect() with.
ConnectErrors == {"ECONNREFUSED", "ETIMEDOUT"}

\* What socket() and connect() do for one address.
ConnectAnswers == {"ok"} \cup ConnectErrors

\* What getaddrinfo returns: a list of addresses, each with its answer.
AddrLists == UNION {[1..n -> ConnectAnswers] : n \in 0..MaxAddrs}

\* get_ssh_socket misses the pool and getaddrinfo returns addrs.
DialStart(addrs) ==
    /\ dial.pc \in {"idle", "done"}
    /\ dial' = [NoDial EXCEPT !.pc = "loop", !.addrs = addrs, !.idx = 1]
    /\ UNCHANGED <<client, server, run, auth, ctl, ctor, sess, rd, closers, flow, shutdown>>

\* getaddrinfo raises socket.gaierror, which the outer handler logs and
\* re-raises.
DialResolveFail ==
    /\ dial.pc \in {"idle", "done"}
    /\ dial' = [NoDial EXCEPT !.pc = "done", !.result = "gaierror"]
    /\ UNCHANGED <<client, server, run, auth, ctl, ctor, sess, rd, closers, flow, shutdown>>

\* Mutation: the first error is the one that is kept.
KeepErrorFirst(error, ex) == IF error = "None" THEN ex ELSE error

\* error = ex
KeepError(error, ex) == ex

\* One round of the loop over the addresses: socket() and connect() for the
\* next address; success leaves the loop with that socket, socket.error
\* goes on to the next address.
DialConnect ==
    /\ dial.pc = "loop"
    /\ dial.idx <= Len(dial.addrs)
    /\ dial' = IF dial.addrs[dial.idx] = "ok"
               THEN [dial EXCEPT !.tried = Append(@, dial.idx), !.ossock = dial.idx,
                                 !.pc = "done", !.result = "ok"]
               ELSE [dial EXCEPT !.tried = Append(@, dial.idx), !.ossock = None,
                                 !.attempt = @ + 1,
                                 !.error = KeepError(@, dial.addrs[dial.idx]),
                                 !.idx = @ + 1]
    /\ UNCHANGED <<client, server, run, auth, ctl, ctor, sess, rd, closers, flow, shutdown>>

\* The else clause of the loop, reached when no address is left: raise the
\* recorded error, or Exception("Couldn't connect ...") when there is none.
DialElse ==
    /\ dial.pc = "loop"
    /\ dial.idx > Len(dial.addrs)
    /\ dial' = [dial EXCEPT !.pc = "done",
                            !.result = IF dial.error # "None" THEN dial.error
                                       ELSE "Exception"]
    /\ UNCHANGED <<client, server, run, auth, ctl, ctor, sess, rd, closers, flow, shutdown>>

NextDial ==
    \/ \E addrs \in AddrLists : DialStart(addrs)
    \/ DialResolveFail
    \/ DialConnect
    \/ DialElse

SpecDial == Init /\ [][NextDial]_vars

\* ------------------------------------- authentication in get_ssh_socket
\* What the server answers to one credential: it accepts it, or the
\* auth_password / auth_publickey call raises AuthenticationException (or
\* its subclass BadAuthenticationType).
Answers == {"ok", "rejected"}

\* The password argument: None, or a password with the server's answer.
Passwords == {"none"} \cup Answers

\* The module-level private_key: None, or a key with the server's answer.
PrivateKeys == {"none"} \cup Answers

\* ssh.Agent().get_keys(): up to MaxKeys keys, each with the server's answer.
AgentKeys == UNION {[1..n -> Answers] : n \in 0..MaxKeys}

\* The name of the i-th of n agent keys.
KeyName(i) == <<"agent", i>>

\* ssh_keys: the agent's keys, then private_key when it is set.
SshKeys(agent, private_key) ==
    [i \in 1..Len(agent) |-> [name |-> KeyName(i), answer |-> agent[i]]]
    \o (IF private_key # "none"
        THEN <<[name |-> <<"private_key", 0>>, answer |-> private_key]>>
        ELSE <<>>)

\* get_ssh_socket reaches the authentication block with these credentials.
AuthStart(password, agent, private_key) ==
    /\ auth.pc \in {"idle", "done"}
    /\ auth' = [NoAuth EXCEPT !.pc = "password", !.password = password,
                              !.keys = SshKeys(agent, private_key)]
    /\ UNCHANGED <<client, server, run, ctl, dial, ctor, sess, rd, closers, flow, shutdown>>

\* if not sshsock.is_authenticated() and password is not None: auth_password,
\* whose AuthenticationException is passed over.
AuthPassword ==
    /\ auth.pc = "password"
    /\ auth' = IF auth.password = "none"
               THEN [auth EXCEPT !.pc = "keys", !.idx = 1]
               ELSE [auth EXCEPT !.pc = "keys", !.idx = 1,
                                 !.attempts = Append(@, <<"password", 0>>),
                                 !.authenticated = (auth.password = "ok"),
                                 !.swallowed = IF auth.password = "ok" THEN @
                                               ELSE Append(@, <<"password", 0>>)]
    /\ UNCHANGED <<client, server, run, ctl, dial, ctor, sess, rd, closers, flow, shutdown>>

\* Mutation: the failure of the first key is the one that is re-raised.
IsLastKeyFirst(idx, keys) == idx = 1

\* if idx == lastkey
IsLastKey(idx, keys) == idx = Len(keys)

\* One round of the loop over ssh_keys (the whole block is skipped, or the
\* loop left, once the transport is authenticated).
AuthKey ==
    /\ auth.pc = "keys"
    /\ auth' =
          IF auth.authenticated \/ auth.idx > Len(auth.keys)
          THEN [auth EXCEPT !.pc = "assert"]
          ELSE LET key == auth.keys[auth.idx]
               IN  IF key.answer = "ok"
                   THEN [auth EXCEPT !.attempts = Append(@, key.name),
                                     !.authenticated = TRUE, !.idx = @ + 1]
                   ELSE IF IsLastKey(auth.idx, auth.keys)
                   THEN [auth EXCEPT !.attempts = Append(@, key.name),
                                     !.pc = "done",
                                     !.result = "AuthenticationException",
                                     !.raised_by = key.name]
                   ELSE [auth EXCEPT !.attempts = Append(@, key.name),
                                     !.swallowed = Append(@, key.name),
                                     !.idx = @ + 1]
    /\ UNCHANGED <<client, server, run, ctl, dial, ctor, sess, rd, closers, flow, shutdown>>

\* assert sshsock.is_authenticated()
AuthAssert ==
    /\ auth.pc = "assert"
    /\ auth' = [auth EXCEPT !.pc = "done",
                            !.result = IF auth.authenticated THEN "ok" ELSE "AssertionError"]
    /\ UNCHANGED <<client, server, run, ctl, dial, ctor, sess, rd, closers, flow, shutdown>>

NextAuth ==
    \/ \E password \in Passwords, agent \in AgentKeys, private_key \in PrivateKeys :
          AuthStart(password, agent, private_key)
    \/ AuthPassword
    \/ AuthKey
    \/ AuthAssert

SpecAuth == Init /\ [][NextAuth]_vars

\* ------------------------------------------------------ SSHClientSession
\* Mutation: a failed invoke_subsystem re-raises without calling close().
InvokeSubsystemFailNoClose(r) ==
    /\ r \in DOMAIN sessions
    /\ r.pc = "open"
    /\ nfaults < MaxFaults
    /\ nfaults' = nfaults + 1
    /\ sessions' = BagReplace(sessions, r, [r EXCEPT !.pc = "failed"])
    /\ UNCHANGED <<cache, ssh_sockets_lock, timers, sockstate, nsessions, nreclose,
                   ossock, pre, nflush>>

\* SSHClientSession.__init__: self.chan.invoke_subsystem(subsystem) raises
\* after the parent constructor returned; self.close() is called and the
\* error re-raised.
InvokeSubsystemFail(r) ==
    /\ r \in DOMAIN sessions
    /\ r.pc = "open"
    /\ nfaults < MaxFaults
    /\ nfaults' = nfaults + 1
    /\ sessions' = BagReplace(sessions, r, CloseBegin(r))
    /\ UNCHANGED <<cache, ssh_sockets_lock, timers, sockstate, nsessions, nreclose,
                   ossock, pre, nflush>>

NextSub ==
    \/ Next
    \/ \E r \in DOMAIN sessions : InvokeSubsystemFail(r) /\ UNCHANGED <<server, run, units>>

SpecSub == Init /\ [][NextSub]_vars

\* ------------------------------------------------------ no-cache variant
\* The transport a get of the no-cache variant builds: always a fresh one.
NoCacheTransport == NewSock

\* get of the no-cache variant succeeds: dial, handshake and authentication
\* give a transport that is recorded nowhere.
NoCacheGetOk(k) ==
    /\ LET t == NoCacheTransport
       IN  /\ os_open' = os_open \cup {t}
           /\ ssh_open' = ssh_open \cup {t}
           /\ sessions' = BagAdd(sessions, [NewSession(k) EXCEPT !.pc = "got", !.ssh = t])
    /\ nsessions' = nsessions + 1
    /\ UNCHANGED <<cache, ssh_sockets_lock, timers, nreclose, nfaults, ossock, pre, nflush>>

\* get of the no-cache variant fails: the partially opened byte stream is
\* closed before the error is returned.
NoCacheGetFail(k) ==
    /\ nfaults < MaxFaults
    /\ nfaults' = nfaults + 1
    /\ sessions' = BagAdd(sessions, [NewSession(k) EXCEPT !.pc = "failed"])
    /\ nsessions' = nsessions + 1
    /\ UNCHANGED <<cache, ssh_sockets_lock, timers, sockstate, nreclose, ossock, pre, nflush>>

\* Mutation: release leaves the transport and its byte stream open.
NoCacheCloseDeferred(t) == UNCHANGED sockstate

\* release of the no-cache variant: the transport and its byte stream are
\* closed at once.
NoCacheClose(t) ==
    /\ ssh_open' = ssh_open \ {t}
    /\ os_open' = os_open \ {t}

\* The release(tmp) call that ends close(), with the no-cache variant.
NoCacheRelease(r) ==
    /\ r \in DOMAIN sessions
    /\ r.pc = "releasing"
    /\ NoCacheClose(r.tmp)
    /\ sessions' = BagReplace(sessions, r,
                      [r EXCEPT !.pc = "closed", !.tmp = None, !.released = @ + 1])
    /\ UNCHANGED <<cache, ssh_sockets_lock, timers, counters, ossock, pre>>

NextNoCache ==
    \/ \E k \in Keys : nsessions < MaxSessions /\ NoCacheGetOk(k) /\ UNCHANGED <<server, run, units>>
    \/ \E k \in Keys : nsessions < MaxSessions /\ NoCacheGetFail(k) /\ UNCHANGED <<server, run, units>>
    \/ \E r \in DOMAIN sessions : OpenSessionOk(r) /\ UNCHANGED <<server, run, units>>
    \/ \E r \in DOMAIN sessions : OpenSessionFail(r) /\ UNCHANGED <<server, run, units>>
    \/ \E r \in DOMAIN sessions : Close(r) /\ UNCHANGED <<server, run, units>>
    \/ \E r \in DOMAIN sessions : CloseAgain(r) /\ UNCHANGED <<server, run, units>>
    \/ \E r \in DOMAIN sessions : NoCacheRelease(r) /\ UNCHANGED <<server, run, units>>

SpecNoCache == Init /\ [][NextNoCache]_vars

\* ---------------------------------------------------- one-shot commands
\* Exit statuses of the remote command.
ExitCodes == {0, 2}

\* What a statement of the try block of run_status_stderr can raise.
RunErrors == {"SSHException", "socket.timeout"}

\* The methods that run a command: run_status_stderr itself, and run_stderr,
\* run_status and run, which call it.
Callers == {"run_status_stderr", "run_stderr", "run_status", "run"}

\* One of them called on an open SSHCommand: run_status_stderr enters its
\* try block.
RunBegin(r) ==
    /\ r \in DOMAIN sessions
    /\ r.pc = "open"
    /\ run.pc \in {"idle", "returned", "raised"}
    /\ run.n < MaxRuns
    /\ \E caller \in Callers :
          run' = [NewRun EXCEPT !.pc = "exec", !.n = run.n + 1, !.caller = caller]
    /\ sessions' = BagReplace(sessions, r, [r EXCEPT !.pc = "running"])
    /\ UNCHANGED <<cache, ssh_sockets_lock, timers, sockstate, counters, ossock, pre>>

\* self.chan.exec_command(self.command): the command starts and will write
\* nout chunks to stdout and nerr chunks to stderr.
RunExec(nout, nerr) ==
    /\ run.pc = "exec"
    /\ run' = [run EXCEPT !.pc = "status", !.out_left = nout, !.err_left = nerr]
    /\ UNCHANGED client

\* self.exit_code = self.chan.recv_exit_status()
RunRecvExitStatus(code) ==
    /\ run.pc = "status"
    /\ run' = [run EXCEPT !.pc = "stdout", !.exit_code = code]
    /\ UNCHANGED client

\* One recvmethod(conn.MAXSSHBUF) call of read_to_eof(self.chan.recv): a
\* chunk is joined to the output; a read that returns nothing ends the loop.
RunRecv ==
    /\ run.pc = "stdout"
    /\ run' = IF run.out_left > 0
              THEN [run EXCEPT !.out_left = @ - 1, !.output = @ + 1]
              ELSE [run EXCEPT !.out_eof = TRUE, !.pc = "stderr"]
    /\ UNCHANGED client

\* The same for read_to_eof(self.chan.recv_stderr); after the last read the
\* return statement is reached.
RunRecvStderr ==
    /\ run.pc = "stderr"
    /\ run' = IF run.err_left > 0
              THEN [run EXCEPT !.err_left = @ - 1, !.error_output = @ + 1]
              ELSE [run EXCEPT !.err_eof = TRUE, !.pc = "finally", !.result = "return"]
    /\ UNCHANGED client

\* Mutation: an exception leaves the call without the finally clause.
AfterRaiseNoClose(exc) == "raised"

\* Where an exception raised inside the try block goes: the finally clause.
AfterRaise(exc) == "finally"

\* exec_command, recv_exit_status, recv or recv_stderr raises exc.
RunRaise(exc) ==
    /\ run.pc \in {"exec", "status", "stdout", "stderr"}
    /\ nfaults < MaxFaults
    /\ nfaults' = nfaults + 1
    /\ run' = [run EXCEPT !.pc = AfterRaise(exc), !.result = "raise"]
    /\ UNCHANGED <<cache, ssh_sockets_lock, timers, sockstate, sessions, nsessions,
                   nreclose, nflush, ossock, pre>>

\* finally: self.close(), up to the call of release_ssh_socket.
RunClose(r) ==
    /\ r \in DOMAIN sessions
    /\ r.pc = "running"
    /\ run.pc = "finally"
    /\ run' = [run EXCEPT !.pc = "release"]
    /\ sessions' = BagReplace(sessions, r, [CloseBegin(r) EXCEPT !.pc = "cmd_releasing"])
    /\ UNCHANGED <<cache, ssh_sockets_lock, timers, sockstate, counters, ossock, pre>>

\* The release_ssh_socket(tmp) call that ends that close(); then the call
\* returns its tuple or lets the exception go on.
RunRelease(r) ==
    /\ r \in DOMAIN sessions
    /\ r.pc = "cmd_releasing"
    /\ run.pc = "release"
    /\ ~ssh_sockets_lock
    /\ release_ssh_socket(r.tmp)
    /\ sessions' = BagReplace(sessions, r,
                      [r EXCEPT !.pc = "ran", !.tmp = None, !.released = @ + 1])
    /\ run' = [run EXCEPT !.pc = IF run.result = "return" THEN "returned" ELSE "raised"]
    /\ UNCHANGED <<ssh_sockets_lock, counters, ossock, pre>>

\* The command string of the SSHCommand.
Command == "ls -d /etc"

\* CalledProcessError(code, command, output, error): the four arguments are
\* kept, by the parent constructor or by the TypeError fallback.
CalledProcessError(code, command, output, error) ==
    [returncode |-> code, cmd |-> command, output |-> output, stderr |-> error]

\* Mutation: a non-zero status is not treated as a failure.
FailedNever(status) == FALSE

\* if status != 0
Failed(status) == status # 0

\* run_stderr() once run_status_stderr() returned (status, output, error).
run_stderr(status, output, error) ==
    IF Failed(status)
    THEN [kind |-> "raise", value |-> CalledProcessError(status, Command, output, error)]
    ELSE [kind |-> "return", value |-> [output |-> output, error_output |-> error]]

\* run(): run_stderr()[0], the exception passing through.
runOutput(status, output, error) ==
    LET res == run_stderr(status, output, error)
    IN  IF res.kind = "return"
        THEN [kind |-> "return", value |-> [output |-> res.value.output]]
        ELSE res

\* run_status(): run_status_stderr()[0:2].
run_status(status, output, error) ==
    [kind |-> "return", value |-> [status |-> status, output |-> output]]

\* What the method the caller used makes of the returned tuple.
Outcome(caller, status, output, error) ==
    IF caller = "run_stderr" THEN run_stderr(status, output, error)
    ELSE IF caller = "run" THEN runOutput(status, output, error)
    ELSE IF caller = "run_status" THEN run_status(status, output, error)
    ELSE [kind |-> "return",
          value |-> [status |-> status, output |-> output, error_output |-> error]]

\* run_status_stderr() has returned its tuple: the calling method returns
\* or raises.
RunDeliver ==
    /\ run.pc = "returned"
    /\ run.outcome.kind = "none"
    /\ run' = [run EXCEPT !.outcome =
                  Outcome(run.caller, run.exit_code, run.output, run.error_output)]
    /\ UNCHANGED client

\* Commands and other sessions to one endpoint.
NextCmd ==
    \/ nsessions < MaxSessions /\ GetReuse(CapKey) /\ UNCHANGED <<server, run, units>>
    \/ nsessions < MaxSessions /\ GetMiss(CapKey) /\ UNCHANGED <<server, run, units>>
    \/ \E r \in DOMAIN sessions : GetDialOk(r) /\ UNCHANGED <<server, run, units>>
    \/ \E r \in DOMAIN sessions : GetAuthOk(r) /\ UNCHANGED <<server, run, units>>
    \/ \E r \in DOMAIN sessions : OpenSessionOk(r) /\ UNCHANGED <<server, run, units>>
    \/ \E r \in DOMAIN sessions : Close(r) /\ UNCHANGED <<server, run, units>>
    \/ \E r \in DOMAIN sessions : Release(r) /\ UNCHANGED <<server, run, units>>
    \/ \E t \in DOMAIN ssh_socket_timeout : TimerFire(t) /\ UNCHANGED <<server, run, units>>
    \/ \E t \in DOMAIN ssh_socket_timeout : Expire(t) /\ UNCHANGED <<server, run, units>>
    \/ \E r \in DOMAIN sessions : RunBegin(r) /\ UNCHANGED <<server, units>>
    \/ \E nout, nerr \in 0..MaxChunks : RunExec(nout, nerr) /\ UNCHANGED <<server, units>>
    \/ \E code \in ExitCodes : RunRecvExitStatus(code) /\ UNCHANGED <<server, units>>
    \/ RunRecv /\ UNCHANGED <<server, units>>
    \/ RunRecvStderr /\ UNCHANGED <<server, units>>
    \/ \E exc \in RunErrors : RunRaise(exc) /\ UNCHANGED <<server, units>>
    \/ \E r \in DOMAIN sessions : RunClose(r) /\ UNCHANGED <<server, units>>
    \/ \E r \in DOMAIN sessions : RunRelease(r) /\ UNCHANGED <<server, units>>
    \/ RunDeliver /\ UNCHANGED <<server, units>>

SpecCmd == Init /\ [][NextCmd]_vars

\* ------------------------------------- SSHConnection.close, two callers
\* Each statement of close() is a step of its own: the method takes no lock.

\* A session is constructed: self.chan and self.ssh are set and the pool
\* entry of its transport counts it and the others that share the transport.
ClosersNew(others) ==
    /\ ~closers.made
    /\ closers' = [NoClosers EXCEPT !.made = TRUE, !.chan = TRUE, !.ssh = TRUE,
                                    !.count = others + 1, !.first = others + 1]
    /\ UNCHANGED <<client, server, run, auth, ctl, dial, ctor, sess, rd, flow, shutdown>>

\* Thread t calls close() (or the finalizer does).
ClosersCall(t) ==
    /\ closers.made
    /\ closers.pc[t] = "idle"
    /\ closers' = [closers EXCEPT !.pc[t] = "test_chan"]
    /\ UNCHANGED <<client, server, run, auth, ctl, dial, ctor, sess, rd, flow, shutdown>>

\* if hasattr(self, "chan") and self.chan:
ClosersTestChan(t) ==
    /\ closers.pc[t] = "test_chan"
    /\ closers' = [closers EXCEPT !.pc[t] = IF closers.chan THEN "chan_close" ELSE "test_ssh"]
    /\ UNCHANGED <<client, server, run, auth, ctl, dial, ctor, sess, rd, flow, shutdown>>

\* self.chan.close(): the attribute is read again; on None the call raises
\* AttributeError.
ClosersChanClose(t) ==
    /\ closers.pc[t] = "chan_close"
    /\ closers' = IF closers.chan
                  THEN [closers EXCEPT !.pc[t] = "chan_none", !.chan_closes = @ + 1]
                  ELSE [closers EXCEPT !.pc[t] = "raised"]
    /\ UNCHANGED <<client, server, run, auth, ctl, dial, ctor, sess, rd, flow, shutdown>>

\* self.chan = None
ClosersChanNone(t) ==
    /\ closers.pc[t] = "chan_none"
    /\ closers' = [closers EXCEPT !.pc[t] = "test_ssh", !.chan = FALSE]
    /\ UNCHANGED <<client, server, run, auth, ctl, dial, ctor, sess, rd, flow, shutdown>>

\* if hasattr(self, "ssh") and self.ssh:
ClosersTestSsh(t) ==
    /\ closers.pc[t] = "test_ssh"
    /\ closers' = [closers EXCEPT !.pc[t] = IF closers.ssh THEN "tmp" ELSE "returned"]
    /\ UNCHANGED <<client, server, run, auth, ctl, dial, ctor, sess, rd, flow, shutdown>>

\* tmp = self.ssh
ClosersTmp(t) ==
    /\ closers.pc[t] = "tmp"
    /\ closers' = [closers EXCEPT !.pc[t] = "ssh_none", !.tmp[t] = closers.ssh]
    /\ UNCHANGED <<client, server, run, auth, ctl, dial, ctor, sess, rd, flow, shutdown>>

\* self.ssh = None
ClosersSshNone(t) ==
    /\ closers.pc[t] = "ssh_none"
    /\ closers' = [closers EXCEPT !.pc[t] = "release", !.ssh = FALSE]
    /\ UNCHANGED <<client, server, run, auth, ctl, dial, ctor, sess, rd, flow, shutdown>>

\* self.release_ssh_socket(tmp, self.debug): nothing for None; otherwise,
\* under the mutex, the entry's count goes down by one.
ClosersRelease(t) ==
    /\ closers.pc[t] = "release"
    /\ closers' = IF closers.tmp[t]
                  THEN [closers EXCEPT !.pc[t] = "returned", !.releases = @ + 1,
                                       !.count = @ - 1]
                  ELSE [closers EXCEPT !.pc[t] = "returned"]
    /\ UNCHANGED <<client, server, run, auth, ctl, dial, ctor, sess, rd, flow, shutdown>>

NextClosers ==
    \/ \E others \in 0..(MAXCHANNELS - 1) : ClosersNew(others)
    \/ \E t \in Closers : ClosersCall(t)
    \/ \E t \in Closers : ClosersTestChan(t)
    \/ \E t \in Closers : ClosersChanClose(t)
    \/ \E t \in Closers : ClosersChanNone(t)
    \/ \E t \in Closers : ClosersTestSsh(t)
    \/ \E t \in Closers : ClosersTmp(t)
    \/ \E t \in Closers : ClosersSshNone(t)
    \/ \E t \in Closers : ClosersRelease(t)

SpecClosers == Init /\ [][NextClosers]_vars

\* --------------------------- run_status_stderr against a remote process
\* self.chan.exec_command(self.command): the remote command starts, with
\* nout chunks to write to stdout and nerr to stderr.
FlowExec(nout, nerr) ==
    /\ flow.pc = "idle"
    /\ flow' = [NoFlow EXCEPT !.pc = "status", !.out_todo = nout, !.err_todo = nerr]
    /\ UNCHANGED <<client, server, run, auth, ctl, dial, ctor, sess, rd, closers, shutdown>>

\* The window has room for one more unread chunk.
WindowOpen == flow.out_buf + flow.err_buf < MaxWindow

\* The remote process writes a chunk to stdout; it blocks while the window
\* is full.
RemoteWriteOut ==
    /\ flow.pc \notin {"idle", "returned"}
    /\ flow.out_todo > 0
    /\ WindowOpen
    /\ flow' = [flow EXCEPT !.out_todo = @ - 1, !.out_buf = @ + 1]
    /\ UNCHANGED <<client, server, run, auth, ctl, dial, ctor, sess, rd, closers, shutdown>>

\* The same for stderr.
RemoteWriteErr ==
    /\ flow.pc \notin {"idle", "returned"}
    /\ flow.err_todo > 0
    /\ WindowOpen
    /\ flow' = [flow EXCEPT !.err_todo = @ - 1, !.err_buf = @ + 1]
    /\ UNCHANGED <<client, server, run, auth, ctl, dial, ctor, sess, rd, closers, shutdown>>

\* The remote process, having written everything, exits.
RemoteExit ==
    /\ flow.pc \notin {"idle", "returned"}
    /\ ~flow.exited
    /\ flow.out_todo = 0
    /\ flow.err_todo = 0
    /\ flow' = [flow EXCEPT !.exited = TRUE]
    /\ UNCHANGED <<client, server, run, auth, ctl, dial, ctor, sess, rd, closers, shutdown>>

\* self.exit_code = self.chan.recv_exit_status() returns once the remote
\* process has exited.
FlowRecvExitStatus ==
    /\ flow.pc = "status"
    /\ flow.exited
    /\ flow' = [flow EXCEPT !.pc = "stdout"]
    /\ UNCHANGED <<client, server, run, auth, ctl, dial, ctor, sess, rd, closers, shutdown>>

\* One read of read_to_eof(self.chan.recv): a chunk when one is waiting,
\* nothing once the process has exited and stdout is drained; it blocks
\* otherwise.
FlowRecv ==
    /\ flow.pc = "stdout"
    /\ flow.out_buf > 0 \/ flow.exited
    /\ flow' = IF flow.out_buf > 0
               THEN [flow EXCEPT !.out_buf = @ - 1, !.output = @ + 1]
               ELSE [flow EXCEPT !.pc = "stderr"]
    /\ UNCHANGED <<client, server, run, auth, ctl, dial, ctor, sess, rd, closers, shutdown>>

\* The same for read_to_eof(self.chan.recv_stderr); then the call returns.
FlowRecvStderr ==
    /\ flow.pc = "stderr"
    /\ flow.err_buf > 0 \/ flow.exited
    /\ flow' = IF flow.err_buf > 0
               THEN [flow EXCEPT !.err_buf = @ - 1, !.error_output = @ + 1]
               ELSE [flow EXCEPT !.pc = "returned"]
    /\ UNCHANGED <<client, server, run, auth, ctl, dial, ctor, sess, rd, closers, shutdown>>

NextFlow ==
    \/ \E nout \in 0..MaxOutput, nerr \in 0..MaxOutput : FlowExec(nout, nerr)
    \/ RemoteWriteOut
    \/ RemoteWriteErr
    \/ RemoteExit
    \/ FlowRecvExitStatus
    \/ FlowRecv
    \/ FlowRecvStderr

\* The remote process and the client both go on whenever they can.
FairnessFlow ==
    /\ WF_vars(RemoteWriteOut)
    /\ WF_vars(RemoteWriteErr)
    /\ WF_vars(RemoteExit)
    /\ WF_vars(FlowRecvExitStatus)
    /\ WF_vars(FlowRecv)
    /\ WF_vars(FlowRecvStderr)

SpecFlow == Init /\ [][NextFlow]_vars /\ FairnessFlow

\* ----------------------------------------------------------- read_to_eof
\* Lengths recvmethod(MAXSSHBUF) can return: nothing, a short read, a full
\* buffer.
ReadLens == {0, 1, MAXSSHBUF}

\* What the successive reads of a channel return; once the list is used up
\* the channel is at EOF and returns nothing.
Scripts == UNION {[1..n -> ReadLens] : n \in 0..MaxScript}

\* The result of read number i of the channel.
ReadResult(script, i) == IF i <= Len(script) THEN script[i] ELSE 0

\* Mutation: a read shorter than the buffer ends the loop.
TruthyFull(buf) == buf = MAXSSHBUF

\* while buf: a bytes object is true unless it is empty.
Truthy(buf) == buf # 0

\* read_to_eof(recvmethod) is called on a channel; the generator makes its
\* first read when the consumer asks for the first item.
ReadToEofStart(script) ==
    /\ rd.pc \in {"idle", "done"}
    /\ rd' = [NoRead EXCEPT !.pc = "recv", !.script = script]
    /\ UNCHANGED <<client, server, run, auth, ctl, dial, ctor, sess, closers, flow, shutdown>>

\* buf = recvmethod(conn.MAXSSHBUF), then the while test: a buffer that is
\* true is yielded and joined to the output by the consumer; otherwise the
\* generator ends.
ReadToEofRecv ==
    /\ rd.pc = "recv"
    /\ LET buf == ReadResult(rd.script, rd.reads + 1) IN
       rd' = IF Truthy(buf)
             THEN [rd EXCEPT !.reads = @ + 1, !.out = Append(@, rd.reads + 1),
                             !.output = @ + buf]
             ELSE [rd EXCEPT !.reads = @ + 1, !.pc = "done"]
    /\ UNCHANGED <<client, server, run, auth, ctl, dial, ctor, sess, closers, flow, shutdown>>

NextRead ==
    \/ \E script \in Scripts : ReadToEofStart(script)
    \/ ReadToEofRecv

SpecRead == Init /\ [][NextRead]_vars

\* ------------------------------------------------ SSHUserPassController
\* User names and passwords clients present.
Usernames == {"admin", "guest"}
UserPasswords == {"secret", "wrong"}

\* What the constructor may be given: "None" is the default None, which no
\* client presents.
ConfigUsernames == Usernames \cup {"None"}
ConfigPasswords == UserPasswords \cup {"None"}

\* Channel kinds and subsystem names clients ask for.
ChannelKinds == {"session", "direct-tcpip", "x11"}
SubsystemNames == {"netconf", "sftp", "NETCONF"}

\* SSHUserPassController(username, password)
ControllerNew(username, password) ==
    /\ ~ctl.made
    /\ ctl' = [NoController EXCEPT !.username = username, !.password = password,
                                   !.made = TRUE]
    /\ UNCHANGED <<client, server, run, auth, dial, ctor, sess, rd, closers, flow, shutdown>>

\* The request is answered with result; event is the Event's flag after it.
Answered(call, args, result, event) ==
    /\ ctl.made
    /\ ctl' = [ctl EXCEPT !.last = [call |-> call, args |-> args, result |-> result],
                          !.event = event]
    /\ UNCHANGED <<client, server, run, auth, dial, ctor, sess, rd, closers, flow, shutdown>>

get_allowed_auths(username) == "password"

check_auth_none(username) == "AUTH_FAILED"

\* Mutation: one matching field is enough.
check_auth_password_either(username, password) ==
    IF ctl.username = username \/ ctl.password = password
    THEN "AUTH_SUCCESSFUL" ELSE "AUTH_FAILED"

check_auth_password(username, password) ==
    IF ctl.username = username /\ ctl.password = password
    THEN "AUTH_SUCCESSFUL" ELSE "AUTH_FAILED"

check_channel_request(kind) ==
    IF kind = "session" THEN "OPEN_SUCCEEDED"
    ELSE "OPEN_FAILED_ADMINISTRATIVELY_PROHIBITED"

\* self.event.set() comes first; the value returned is name == "netconf".
check_channel_subsystem_request(name) == name = "netconf"

NextCtl ==
    \/ \E u \in ConfigUsernames, p \in ConfigPasswords : ControllerNew(u, p)
    \/ \E u \in Usernames :
          Answered("get_allowed_auths", <<u>>, get_allowed_auths(u), ctl.event)
    \/ \E u \in Usernames :
          Answered("check_auth_none", <<u>>, check_auth_none(u), ctl.event)
    \/ \E u \in Usernames, p \in UserPasswords :
          Answered("check_auth_password", <<u, p>>, check_auth_password(u, p), ctl.event)
    \/ \E kind \in ChannelKinds :
          Answered("check_channel_request", <<kind>>, check_channel_request(kind), ctl.event)
    \/ \E name \in SubsystemNames :
          Answered("check_channel_subsystem_request", <<name>>,
                   check_channel_subsystem_request(name), TRUE)

SpecCtl == Init /\ [][NextCtl]_vars

\* ================================================================ server
\* --------------------------------------------------- SSHServerAny.__init__
\* start_listen_thread once bind() and listen() succeeded: the thread is
\* appended to self.threads and started, under self.lock.
StartThread(th) ==
    /\ threads' = Append(threads, th)
    /\ apc' = [apc EXCEPT ![th] = "select"]
    /\ listening' = listening \cup {th}
    /\ pipes' = pipes \cup {th}

\* SSHServerAny(port=...): port -1 returns before any listener is made;
\* otherwise the constructor goes on to bind "::".
ServerNew(port) ==
    /\ srv_pc = "new"
    /\ srv_pc' = IF port = -1 THEN "up" ELSE "bind6"
    /\ UNCHANGED <<bind_error, threads, apc, acur, signal, listening, pipes, lock,
                   sockets, ss, srvsessions, ch_pc, ch_cur, nconns, nsrvfaults,
                   asnap>>
    /\ UNCHANGED <<client, run, units>>

\* self.start_listen_thread(("::", port)) succeeds.
Bind6Ok ==
    /\ srv_pc = "bind6"
    /\ lock = Free
    /\ StartThread("v6")
    /\ srv_pc' = "bind4"
    /\ UNCHANGED <<bind_error, acur, signal, lock, sockets, ss, srvsessions, ch_pc,
                   ch_cur, nconns, nsrvfaults, asnap>>
    /\ UNCHANGED <<client, run, units>>

\* self.start_listen_thread(("::", port)) raises: it is outside the try, so
\* the constructor raises.
Bind6Fail ==
    /\ srv_pc = "bind6"
    /\ srv_pc' = "raised"
    /\ UNCHANGED <<bind_error, threads, apc, acur, signal, listening, pipes, lock,
                   sockets, ss, srvsessions, ch_pc, ch_cur, nconns, nsrvfaults,
                   asnap>>
    /\ UNCHANGED <<client, run, units>>

\* What the second bind can end with: success, or a socket.error with one of
\* these errno values.
BindErrors == {"EADDRINUSE", "EACCES"}

\* except socket.error as error:
\*     if error.errno == errno.EADDRINUSE:
\*         pass
\*     raise
AfterBind4Error(errno) == IF errno = "EADDRINUSE" THEN "raised" ELSE "raised"

\* self.start_listen_thread(("", port)) succeeds.
Bind4Ok ==
    /\ srv_pc = "bind4"
    /\ lock = Free
    /\ StartThread("v4")
    /\ srv_pc' = "up"
    /\ UNCHANGED <<bind_error, acur, signal, lock, sockets, ss, srvsessions, ch_pc,
                   ch_cur, nconns, nsrvfaults, asnap>>
    /\ UNCHANGED <<client, run, units>>

\* self.start_listen_thread(("", port)) raises socket.error at bind().
Bind4Fail(errno) ==
    /\ srv_pc = "bind4"
    /\ bind_error' = errno
    /\ srv_pc' = AfterBind4Error(errno)
    /\ UNCHANGED <<threads, apc, acur, signal, listening, pipes, lock,
                   sockets, ss, srvsessions, ch_pc, ch_cur, nconns, nsrvfaults,
                   asnap>>
    /\ UNCHANGED <<client, run, units>>

\* ------------------------------------------------------- SSHServerSocket
\* SSHServerSocket.__init__ when start_server succeeded: the fields, and the
\* channel thread started at its loop head.
NewServerSocket(origin) ==
    [origin |-> origin, running |-> TRUE, ssh |-> TRUE, client_socket |-> TRUE,
     sessions |-> <<>>, lock |-> Free, pc |-> "top", channel |-> FALSE,
     session |-> None]

\* What SSHServerSocket.__init__ can raise.
BuildErrors == {"AuthenticationException", "EOFError", "SSHException"}

\* A server socket object for the next TCP connection.
NextConn == nconns + 1

\* Server sessions of server socket c whose stream is still set.
OpenSessions(c) == {i \in DOMAIN srvsessions : srvsessions[i].sock = c /\ srvsessions[i].stream}

\* SSHServerSession.close() on each session of the list: stream.close() and
\* self.stream = None, under the session's lock.
CloseSessions(list) ==
    [i \in DOMAIN srvsessions |->
        IF \E j \in 1..Len(list) : list[j] = i
        THEN [srvsessions[i] EXCEPT !.stream = FALSE] ELSE srvsessions[i]]

\* ------------------------------------- SSHServerSocket._accept_chan_thread
\* Loop head, under the socket's lock: leave if not running, else take
\* self.ssh and go to accept().
ChanTop(c) ==
    /\ c \in DOMAIN ss
    /\ ss[c].pc = "top"
    /\ ss[c].lock = Free
    /\ ss' = [ss EXCEPT ![c].pc = IF ss[c].running THEN "accept" ELSE "exited"]
    /\ UNCHANGED <<srv_pc, bind_error, threads, apc, acur, signal, listening, pipes, lock,
                   sockets, srvsessions, ch_pc, ch_cur, nconns, nsrvfaults,
                   asnap>>
    /\ UNCHANGED <<client, run, units>>

\* What ssh_conn.accept(timeout=1) can return to the thread of c: None after
\* its timeout, or a channel the client opened on the open transport.
AcceptResults(c) ==
    {FALSE} \cup (IF ss[c].ssh /\ Cardinality(DOMAIN srvsessions) < MaxChans
                  THEN {TRUE} ELSE {})

\* accept() returned channel (TRUE) or None (FALSE); then the second locked
\* block: after shutdown close the channel and leave; with no channel leave
\* if the transport is not active (the peer is gone, active = FALSE) or
\* loop; with a channel go on to build its session.
ChanCheck(c, channel, active) ==
    /\ c \in DOMAIN ss
    /\ ss[c].pc = "accept"
    /\ ss[c].lock = Free
    /\ channel \in AcceptResults(c)
    /\ ss' = IF ~ss[c].running
             THEN [ss EXCEPT ![c].pc = "exited"]
             ELSE IF ~channel
             THEN IF active
                  THEN [ss EXCEPT ![c].pc = "top"]
                  ELSE [ss EXCEPT ![c].pc = "exited", ![c].running = FALSE]
             ELSE [ss EXCEPT ![c].pc = "construct", ![c].channel = TRUE]
    /\ UNCHANGED <<srv_pc, bind_error, threads, apc, acur, signal, listening, pipes, lock,
                   sockets, srvsessions, ch_pc, ch_cur, nconns, nsrvfaults,
                   asnap>>
    /\ UNCHANGED <<client, run, units>>

\* session = self.session_class(channel, ...), outside the lock.
ChanSessionOk(c) ==
    /\ c \in DOMAIN ss
    /\ ss[c].pc = "construct"
    /\ LET i == Cardinality(DOMAIN srvsessions) + 1
       IN  /\ srvsessions' = DictSet(srvsessions, i, [sock |-> c, stream |-> TRUE])
           /\ ss' = [ss EXCEPT ![c].pc = "append", ![c].session = i]
    /\ UNCHANGED <<srv_pc, bind_error, threads, apc, acur, signal, listening, pipes, lock,
                   sockets, ch_pc, ch_cur, nconns, nsrvfaults, asnap>>
    /\ UNCHANGED <<client, run, units>>

\* The session class raises: the handler runs self.client_socket.close(),
\* which raises AttributeError and ends the thread when close() has set the
\* field to None; otherwise it goes on to self.server.remove_socket(self).
ChanSessionFail(c) ==
    /\ c \in DOMAIN ss
    /\ ss[c].pc = "construct"
    /\ nsrvfaults < MaxSrvFaults
    /\ nsrvfaults' = nsrvfaults + 1
    /\ ss' = [ss EXCEPT ![c].pc = IF ss[c].client_socket THEN "remove" ELSE "exited",
                        ![c].client_socket = FALSE, ![c].channel = FALSE]
    /\ UNCHANGED <<srv_pc, bind_error, threads, apc, acur, signal, listening, pipes, lock,
                   sockets, srvsessions, ch_pc, ch_cur, nconns, asnap>>
    /\ UNCHANGED <<client, run, units>>

\* The elements of a list without c.
Without(list, c) == SelectSeq(list, LAMBDA x : x # c)

\* remove_socket(self) called by the handler, under the server's lock.
ChanRemove(c) ==
    /\ c \in DOMAIN ss
    /\ ss[c].pc = "remove"
    /\ lock = Free
    /\ sockets' = Without(sockets, c)
    /\ ss' = [ss EXCEPT ![c].pc = "exited"]
    /\ UNCHANGED <<srv_pc, bind_error, threads, apc, acur, signal, listening, pipes, lock,
                   srvsessions, ch_pc, ch_cur, nconns, nsrvfaults,
                   asnap>>
    /\ UNCHANGED <<client, run, units>>

\* with self.lock: self.sessions.append(session)
ChanAppend(c) ==
    /\ c \in DOMAIN ss
    /\ ss[c].pc = "append"
    /\ ss[c].lock = Free
    /\ ss' = [ss EXCEPT ![c].pc = "top", ![c].channel = FALSE, ![c].session = None,
                        ![c].sessions = Append(@, ss[c].session)]
    /\ UNCHANGED <<srv_pc, bind_error, threads, apc, acur, signal, listening, pipes, lock,
                   sockets, srvsessions, ch_pc, ch_cur, nconns, nsrvfaults,
                   asnap>>
    /\ UNCHANGED <<client, run, units>>

\* ------------------------------------------------ SSHServerSocket.close
\* Mutation: self.thread.join() is inside the with block.
LockAtJoinHeld == "close"

\* The lock held when close() reaches self.thread.join(): the with block
\* has ended.
LockAtJoin == Free

\* close(), first part, under the socket's lock: running = False, every
\* session of the list closed, the list replaced by an empty one.
SockCloseSessions(c) ==
    /\ ss[c].lock = Free
    /\ srvsessions' = CloseSessions(ss[c].sessions)
    /\ ss' = [ss EXCEPT ![c].lock = "close", ![c].running = FALSE, ![c].sessions = <<>>]

\* close(), second part: the transport and the client socket are closed and
\* the fields set to None; the with block ends.
SockCloseTransport(c) ==
    /\ ss[c].lock = "close"
    /\ ss' = [ss EXCEPT ![c].ssh = FALSE, ![c].client_socket = FALSE, ![c].lock = LockAtJoin]
    /\ UNCHANGED srvsessions

\* self.thread.join() returns once the channel thread has ended.
SockJoined(c) == ss[c].pc = "exited"

\* ------------------------------------ SSHServerAny._accept_socket_thread
\* select() reports the listen socket only: proto_sock.accept() returns a
\* client and the thread starts building its server socket.
AcceptClient(th) ==
    /\ apc[th] = "select"
    /\ th \in listening
    /\ th \notin signal
    /\ nconns < MaxConns
    /\ nconns' = NextConn
    /\ acur' = [acur EXCEPT ![th] = NextConn]
    /\ apc' = [apc EXCEPT ![th] = "building"]
    /\ UNCHANGED <<srv_pc, bind_error, threads, signal, listening, pipes, lock,
                   sockets, ss, srvsessions, ch_pc, ch_cur, nsrvfaults,
                   asnap>>
    /\ UNCHANGED <<client, run, units>>

\* self.server_socket_class(...) returns the new server socket, which the
\* thread appends to self.sockets under the server's lock.
BuildOk(th) ==
    /\ apc[th] = "building"
    /\ lock = Free
    /\ ss' = DictSet(ss, acur[th], NewServerSocket("accept"))
    /\ sockets' = Append(sockets, acur[th])
    /\ acur' = [acur EXCEPT ![th] = None]
    /\ apc' = [apc EXCEPT ![th] = "select"]
    /\ UNCHANGED <<srv_pc, bind_error, threads, signal, listening, pipes, lock,
                   srvsessions, ch_pc, ch_cur, nconns, nsrvfaults,
                   asnap>>
    /\ UNCHANGED <<client, run, units>>

\* Mutation: an exception from building a server socket ends the thread.
AfterBuildErrorExit(exc) == "exited"

\* Where the accept thread goes after the constructor raised exc: each of
\* the three handlers logs and the loop goes on.
AfterBuildError(exc) ==
    IF exc = "AuthenticationException" THEN "select"
    ELSE IF exc = "EOFError" THEN "select"
    ELSE "select"

\* self.server_socket_class(...) raises exc.
BuildFail(th, exc) ==
    /\ apc[th] = "building"
    /\ nsrvfaults < MaxSrvFaults
    /\ nsrvfaults' = nsrvfaults + 1
    /\ apc' = [apc EXCEPT ![th] = AfterBuildError(exc)]
    /\ acur' = [acur EXCEPT ![th] = None]
    /\ UNCHANGED <<srv_pc, bind_error, threads, signal, listening, pipes, lock,
                   sockets, ss, srvsessions, ch_pc, ch_cur, nconns,
                   asnap>>
    /\ UNCHANGED <<client, run, units>>

\* --------------------------------------------- SSHServerSocket.__init__
\* The steps inside the try block of the constructor.
CtorSteps == {"Transport", "add_server_key", "start_server"}

\* What a step of the try block can raise: anything; the SSH handshake
\* errors come from start_server.
CtorErrors(step) ==
    IF step = "start_server" THEN BuildErrors \cup {"Exception"} ELSE {"Exception"}

\* proto_sock.accept() returned a client and the constructor is entered:
\* the fields are set, self.client_socket = newsocket.
CtorNew ==
    /\ ctor.pc \in {"idle", "done", "select"}
    /\ ctor.n < MaxClients
    /\ ctor' = [ctor EXCEPT !.pc = "Transport", !.n = @ + 1, !.client_socket = ctor.n + 1,
                            !.ssh = FALSE, !.raised = "None",
                            !.open = @ \cup {ctor.n + 1}]
    /\ UNCHANGED <<client, server, run, auth, ctl, dial, sess, rd, closers, flow, shutdown>>

\* self.ssh = ssh.Transport(self.client_socket)
CtorTransport ==
    /\ ctor.pc = "Transport"
    /\ ctor' = [ctor EXCEPT !.pc = "add_server_key", !.ssh = TRUE]
    /\ UNCHANGED <<client, server, run, auth, ctl, dial, sess, rd, closers, flow, shutdown>>

\* self.ssh.add_server_key(self.server.host_key)
CtorAddServerKey ==
    /\ ctor.pc = "add_server_key"
    /\ ctor' = [ctor EXCEPT !.pc = "start_server"]
    /\ UNCHANGED <<client, server, run, auth, ctl, dial, sess, rd, closers, flow, shutdown>>

\* self.ssh.start_server(...) returns; the lock and the channel thread are
\* made and the constructor returns.
CtorStartServer ==
    /\ ctor.pc = "start_server"
    /\ ctor' = [ctor EXCEPT !.pc = "done"]
    /\ UNCHANGED <<client, server, run, auth, ctl, dial, sess, rd, closers, flow, shutdown>>

\* The step the constructor is at raises exc. AuthenticationException is
\* caught by the only handler of the try block; anything else leaves the
\* constructor at once. When start_server raises, the transport's own
\* thread may or may not have closed the socket by then.
CtorRaise(exc, shut) ==
    /\ ctor.pc \in CtorSteps
    /\ exc \in CtorErrors(ctor.pc)
    /\ shut => ctor.pc = "start_server"
    /\ ctor' = [ctor EXCEPT !.pc = IF exc = "AuthenticationException" THEN "except"
                                   ELSE "raised",
                            !.raised = exc,
                            !.open = IF shut THEN @ \ {ctor.client_socket} ELSE @]
    /\ UNCHANGED <<client, server, run, auth, ctl, dial, sess, rd, closers, flow, shutdown>>

\* except ssh.AuthenticationException: self.client_socket.close(),
\* self.client_socket = None, raise.
CtorExcept ==
    /\ ctor.pc = "except"
    /\ ctor' = [ctor EXCEPT !.pc = "raised", !.client_socket = None,
                            !.open = @ \ {ctor.client_socket}]
    /\ UNCHANGED <<client, server, run, auth, ctl, dial, sess, rd, closers, flow, shutdown>>

\* The accept thread's handlers for what the constructor raised: each one
\* logs, none touches the client, and the loop goes back to select().
CtorHandled ==
    /\ ctor.pc = "raised"
    /\ ctor' = [ctor EXCEPT !.pc = AfterBuildError(ctor.raised)]
    /\ UNCHANGED <<client, server, run, auth, ctl, dial, sess, rd, closers, flow, shutdown>>

NextCtor ==
    \/ CtorNew
    \/ CtorTransport
    \/ CtorAddServerKey
    \/ CtorStartServer
    \/ \E exc \in BuildErrors \cup {"Exception"}, shut \in BOOLEAN : CtorRaise(exc, shut)
    \/ CtorExcept
    \/ CtorHandled

SpecCtor == Init /\ [][NextCtor]_vars

\* select() reports the close pipe: the thread starts closing down.
DrainStart(th) ==
    /\ apc[th] = "select"
    /\ th \in signal
    /\ apc' = [apc EXCEPT ![th] = "drain"]
    /\ asnap' = [asnap EXCEPT ![th] = {sockets[i] : i \in 1..Len(sockets)}]
    /\ UNCHANGED <<srv_pc, bind_error, threads, acur, signal, listening, pipes, lock,
                   sockets, ss, srvsessions, ch_pc, ch_cur, nconns, nsrvfaults>>
    /\ UNCHANGED <<client, run, units>>

\* One round of the loop that empties self.sockets, under the lock: pop
\* the last element and go on to close it; or, the list being empty, leave
\* the loop, close the listen socket and the close pipe and return.
DrainPop(th) ==
    /\ apc[th] = "drain"
    /\ lock = Free
    /\ IF sockets = <<>>
       THEN /\ apc' = [apc EXCEPT ![th] = "exited"]
            /\ listening' = listening \ {th}
            /\ pipes' = pipes \ {th}
            /\ asnap' = [asnap EXCEPT ![th] = {}]
            /\ UNCHANGED <<acur, sockets>>
       ELSE /\ acur' = [acur EXCEPT ![th] = sockets[Len(sockets)]]
            /\ sockets' = SubSeq(sockets, 1, Len(sockets) - 1)
            /\ apc' = [apc EXCEPT ![th] = "sockclose"]
            /\ UNCHANGED <<listening, pipes, asnap>>
    /\ UNCHANGED <<srv_pc, bind_error, threads, signal, lock,
                   ss, srvsessions, ch_pc, ch_cur, nconns, nsrvfaults>>
    /\ UNCHANGED <<client, run, units>>

\* sock.close(), first part.
DrainSockClose(th) ==
    /\ apc[th] = "sockclose"
    /\ SockCloseSessions(acur[th])
    /\ apc' = [apc EXCEPT ![th] = "socktransport"]
    /\ UNCHANGED <<srv_pc, bind_error, threads, acur, signal, listening, pipes, lock,
                   sockets, ch_pc, ch_cur, nconns, nsrvfaults, asnap>>
    /\ UNCHANGED <<client, run, units>>

\* sock.close(), second part.
DrainSockTransport(th) ==
    /\ apc[th] = "socktransport"
    /\ SockCloseTransport(acur[th])
    /\ apc' = [apc EXCEPT ![th] = "sockjoin"]
    /\ UNCHANGED <<srv_pc, bind_error, threads, acur, signal, listening, pipes, lock,
                   sockets, ch_pc, ch_cur, nconns, nsrvfaults, asnap>>
    /\ UNCHANGED <<client, run, units>>

\* sock.close() returns from self.thread.join(); back to the loop.
DrainSockJoin(th) ==
    /\ apc[th] = "sockjoin"
    /\ SockJoined(acur[th])
    /\ acur' = [acur EXCEPT ![th] = None]
    /\ apc' = [apc EXCEPT ![th] = "drain"]
    /\ UNCHANGED <<srv_pc, bind_error, threads, signal, listening, pipes, lock,
                   sockets, ss, srvsessions, ch_pc, ch_cur, nconns, nsrvfaults,
                   asnap>>
    /\ UNCHANGED <<client, run, units>>

\* ------------------------------------------- SSHServerAny.close and join
\* close() takes self.lock and starts the loop over self.threads.
ServerCloseBegin ==
    /\ srv_pc = "up"
    /\ lock = Free
    /\ lock' = "close"
    /\ srv_pc' = "closing"
    /\ UNCHANGED <<bind_error, threads, apc, acur, signal, listening, pipes,
                   sockets, ss, srvsessions, ch_pc, ch_cur, nconns, nsrvfaults,
                   asnap>>
    /\ UNCHANGED <<client, run, units>>

\* The threads of self.threads that close() has not signalled yet.
Unsignalled == {i \in 1..Len(threads) : threads[i] \notin signal}

\* One round of the loop: assert thread.is_alive(); sock.send(b"!").  When
\* the assertion fails close() raises and the with block frees the lock.
ServerCloseSend ==
    /\ srv_pc = "closing"
    /\ Unsignalled # {}
    /\ LET th == threads[Min(Unsignalled)]
       IN  IF apc[th] = "exited"
           THEN /\ srv_pc' = "close_raised"
                /\ lock' = Free
                /\ UNCHANGED signal
           ELSE /\ signal' = signal \cup {th}
                /\ UNCHANGED <<srv_pc, lock>>
    /\ UNCHANGED <<bind_error, threads, apc, acur, listening, pipes,
                   sockets, ss, srvsessions, ch_pc, ch_cur, nconns, nsrvfaults,
                   asnap>>
    /\ UNCHANGED <<client, run, units>>

\* The loop is over: the with block ends and close() returns.
ServerCloseEnd ==
    /\ srv_pc = "closing"
    /\ Unsignalled = {}
    /\ lock' = Free
    /\ srv_pc' = "closed"
    /\ UNCHANGED <<bind_error, threads, apc, acur, signal, listening, pipes,
                   sockets, ss, srvsessions, ch_pc, ch_cur, nconns, nsrvfaults,
                   asnap>>
    /\ UNCHANGED <<client, run, units>>

\* join() is called after close() returned.
ServerJoinCall ==
    /\ srv_pc = "closed"
    /\ srv_pc' = "joining"
    /\ UNCHANGED <<bind_error, threads, apc, acur, signal, listening, pipes, lock,
                   sockets, ss, srvsessions, ch_pc, ch_cur, nconns, nsrvfaults,
                   asnap>>
    /\ UNCHANGED <<client, run, units>>

\* thread, _ = self.threads.pop(); thread.join()
ServerJoinThread ==
    /\ srv_pc = "joining"
    /\ threads # <<>>
    /\ apc[threads[Len(threads)]] = "exited"
    /\ threads' = SubSeq(threads, 1, Len(threads) - 1)
    /\ UNCHANGED <<srv_pc, bind_error, apc, acur, signal, listening, pipes, lock,
                   sockets, ss, srvsessions, ch_pc, ch_cur, nconns, nsrvfaults,
                   asnap>>
    /\ UNCHANGED <<client, run, units>>

\* self.threads is empty: join() returns.
ServerJoinReturn ==
    /\ srv_pc = "joining"
    /\ threads = <<>>
    /\ srv_pc' = "joined"
    /\ UNCHANGED <<bind_error, threads, apc, acur, signal, listening, pipes, lock,
                   sockets, ss, srvsessions, ch_pc, ch_cur, nconns, nsrvfaults,
                   asnap>>
    /\ UNCHANGED <<client, run, units>>

\* ------------------------------- sequences of close() and join() calls
\* The constructor returned: self.threads holds the started accept threads,
\* one for IPv6 and, when the second bind succeeded, one for IPv4.
ShutNew(both) ==
    /\ ~shutdown.made
    /\ LET ths == IF both THEN <<"v6", "v4">> ELSE <<"v6">>
       IN  shutdown' = [NoShut EXCEPT !.made = TRUE, !.threads = ths,
                                  !.alive = {ths[i] : i \in 1..Len(ths)}]
    /\ UNCHANGED <<client, server, run, auth, ctl, dial, ctor, sess, rd, closers, flow>>

\* Positions in self.threads of the threads that are not alive.
NotAlive(s) == {i \in 1..Len(s.threads) : s.threads[i] \notin s.alive}

\* close(): under the lock, for each thread in list order, assert
\* thread.is_alive() and send a byte to its close pipe. An accept thread
\* needs the lock to leave, so none ends while the loop runs.
ShutClose ==
    /\ shutdown.made
    /\ shutdown.ncloses < MaxServerCalls
    /\ LET upto == IF NotAlive(shutdown) = {} THEN Len(shutdown.threads)
                   ELSE Min(NotAlive(shutdown)) - 1
       IN  shutdown' = [shutdown EXCEPT !.ncloses = @ + 1,
                                !.signal = @ \cup {shutdown.threads[i] : i \in 1..upto},
                                !.failed = @ \/ NotAlive(shutdown) # {}]
    /\ UNCHANGED <<client, server, run, auth, ctl, dial, ctor, sess, rd, closers, flow>>

\* An accept thread that found its close pipe readable has closed the
\* server sockets, its listen socket and its pipe, and returns.
ShutThreadReturns(th) ==
    /\ th \in shutdown.alive
    /\ th \in shutdown.signal
    /\ shutdown' = [shutdown EXCEPT !.alive = @ \ {th}]
    /\ UNCHANGED <<client, server, run, auth, ctl, dial, ctor, sess, rd, closers, flow>>

\* select() or accept() raises in an accept thread: the outer handler logs
\* and the thread ends.
ShutThreadRaises(th) ==
    /\ th \in shutdown.alive
    /\ shutdown.died < MaxSrvFaults
    /\ shutdown' = [shutdown EXCEPT !.alive = @ \ {th}, !.died = @ + 1]
    /\ UNCHANGED <<client, server, run, auth, ctl, dial, ctor, sess, rd, closers, flow>>

\* join() is called.
ShutJoinCall ==
    /\ shutdown.made
    /\ shutdown.pc \in {"idle", "joined"}
    /\ shutdown.njoins < MaxServerCalls
    /\ shutdown' = [shutdown EXCEPT !.pc = "joining", !.njoins = @ + 1]
    /\ UNCHANGED <<client, server, run, auth, ctl, dial, ctor, sess, rd, closers, flow>>

\* thread, _ = self.threads.pop(); thread.join()
ShutJoinThread ==
    /\ shutdown.pc = "joining"
    /\ shutdown.threads # <<>>
    /\ shutdown.threads[Len(shutdown.threads)] \notin shutdown.alive
    /\ shutdown' = [shutdown EXCEPT !.threads = SubSeq(@, 1, Len(@) - 1)]
    /\ UNCHANGED <<client, server, run, auth, ctl, dial, ctor, sess, rd, closers, flow>>

\* self.threads is empty: join() returns.
ShutJoinReturn ==
    /\ shutdown.pc = "joining"
    /\ shutdown.threads = <<>>
    /\ shutdown' = [shutdown EXCEPT !.pc = "joined"]
    /\ UNCHANGED <<client, server, run, auth, ctl, dial, ctor, sess, rd, closers, flow>>

NextShut ==
    \/ \E both \in BOOLEAN : ShutNew(both)
    \/ ShutClose
    \/ \E th \in AThreads : ShutThreadReturns(th)
    \/ \E th \in AThreads : ShutThreadRaises(th)
    \/ ShutJoinCall
    \/ ShutJoinThread
    \/ ShutJoinReturn

SpecShut == Init /\ [][NextShut]_vars

\* ------------------------------------------------ SSHServerAny.call_home
\* The server object exists: its constructor returned.
Constructed == srv_pc \in {"up", "closing", "close_raised", "closed", "joining", "joined"}

\* call_home(host, port): the TCP connection to the client is made and the
\* server socket is being built on it.
CallHomeDial ==
    /\ Constructed
    /\ ch_pc = "idle"
    /\ nconns < MaxConns
    /\ nconns' = NextConn
    /\ ch_cur' = NextConn
    /\ ch_pc' = "building"
    /\ UNCHANGED <<srv_pc, bind_error, threads, apc, acur, signal, listening, pipes, lock,
                   sockets, ss, srvsessions, nsrvfaults, asnap>>
    /\ UNCHANGED <<client, run, units>>

\* self.server_socket_class(...) returns the new server socket, which
\* call_home appends to self.sockets under the server's lock.
CallHomeBuildOk ==
    /\ ch_pc = "building"
    /\ lock = Free
    /\ ss' = DictSet(ss, ch_cur, NewServerSocket("call_home"))
    /\ sockets' = Append(sockets, ch_cur)
    /\ ch_pc' = "idle"
    /\ ch_cur' = None
    /\ UNCHANGED <<srv_pc, bind_error, threads, apc, acur, signal, listening, pipes, lock,
                   srvsessions, nconns, nsrvfaults, asnap>>
    /\ UNCHANGED <<client, run, units>>

\* self.server_socket_class(...) raises: call_home raises to its caller.
CallHomeBuildFail ==
    /\ ch_pc = "building"
    /\ nsrvfaults < MaxSrvFaults
    /\ nsrvfaults' = nsrvfaults + 1
    /\ ch_pc' = "idle"
    /\ ch_cur' = None
    /\ UNCHANGED <<srv_pc, bind_error, threads, apc, acur, signal, listening, pipes, lock,
                   sockets, ss, srvsessions, nconns, asnap>>
    /\ UNCHANGED <<client, run, units>>

\* ----------------------------------------------------- the server's steps
\* The ports a caller passes: a port to listen on, or -1 for no listener.
Ports == {830, -1}

NextSrv ==
    \/ \E port \in Ports : ServerNew(port)
    \/ Bind6Ok
    \/ Bind6Fail
    \/ Bind4Ok
    \/ \E errno \in BindErrors : Bind4Fail(errno)
    \/ \E th \in AThreads : AcceptClient(th)
    \/ \E th \in AThreads : BuildOk(th)
    \/ \E th \in AThreads, exc \in BuildErrors : BuildFail(th, exc)
    \/ \E th \in AThreads : DrainStart(th)
    \/ \E th \in AThreads : DrainPop(th)
    \/ \E th \in AThreads : DrainSockClose(th)
    \/ \E th \in AThreads : DrainSockTransport(th)
    \/ \E th \in AThreads : DrainSockJoin(th)
    \/ \E c \in DOMAIN ss : ChanTop(c)
    \/ \E c \in DOMAIN ss, channel \in BOOLEAN, active \in BOOLEAN :
          ChanCheck(c, channel, active)
    \/ \E c \in DOMAIN ss : ChanSessionOk(c)
    \/ \E c \in DOMAIN ss : ChanSessionFail(c)
    \/ \E c \in DOMAIN ss : ChanRemove(c)
    \/ \E c \in DOMAIN ss : ChanAppend(c)
    \/ ServerCloseBegin
    \/ ServerCloseSend
    \/ ServerCloseEnd
    \/ ServerJoinCall
    \/ ServerJoinThread
    \/ ServerJoinReturn

SpecSrv == Init /\ [][NextSrv]_vars

\* The same with a thread that calls call_home.
NextSrvHome ==
    \/ NextSrv
    \/ CallHomeDial
    \/ CallHomeBuildOk
    \/ CallHomeBuildFail

SpecSrvHome == Init /\ [][NextSrvHome]_vars

\* Every thread of the server keeps running: a blocking call returns (the
\* handshake ends, accept() times out after a second) and a thread waiting
\* for a lock gets it once it is free.
FairnessSrv ==
    /\ \A th \in AThreads :
          /\ WF_vars(BuildOk(th))
          /\ WF_vars(DrainStart(th))
          /\ WF_vars(DrainPop(th))
          /\ WF_vars(DrainSockClose(th))
          /\ WF_vars(DrainSockTransport(th))
          /\ WF_vars(DrainSockJoin(th))
    /\ \A c \in 1..MaxConns :
          /\ WF_vars(ChanTop(c))
          /\ WF_vars(\E active \in BOOLEAN : ChanCheck(c, FALSE, active))
          /\ WF_vars(ChanSessionOk(c))
          /\ WF_vars(ChanRemove(c))
          /\ WF_vars(ChanAppend(c))
    /\ WF_vars(ServerCloseSend)
    /\ WF_vars(ServerCloseEnd)
    /\ WF_vars(ServerJoinThread)
    /\ WF_vars(ServerJoinReturn)

SpecSrvLive == SpecSrv /\ FairnessSrv

\* ------------------------------------------------------ SSHServerSession
\* Each with self.lock block of the class is one step: none of them blocks.

\* A session is constructed on an open channel. The base class leaves
\* reader_thread None; a subclass starts a thread on _read_message_thread
\* with keep_running set.
SessionNew(reader) ==
    /\ sess.rpc = "none"
    /\ sess.chan = "none"
    /\ sess' = [NoSession EXCEPT !.stream = TRUE, !.chan = "open",
                                 !.reader_thread = reader, !.keep_running = reader,
                                 !.rpc = IF reader THEN "while" ELSE "none"]
    /\ UNCHANGED <<client, server, run, auth, ctl, dial, ctor, rd, closers, flow, shutdown>>

\* The body of close(): keep_running = False when there is a reader; then,
\* unless self.stream is None already, self.stream = None and stream.close().
SessionClosed(s) ==
    [s EXCEPT !.keep_running = FALSE,
              !.stream = FALSE,
              !.chan = IF s.stream THEN "closed" ELSE @]

\* close() called from outside the reader thread.
SessionClose ==
    /\ sess.chan # "none"
    /\ sess.ncloses < MaxCloses
    /\ sess' = [SessionClosed(sess) EXCEPT !.ncloses = @ + 1]
    /\ UNCHANGED <<client, server, run, auth, ctl, dial, ctor, rd, closers, flow, shutdown>>

\* The reader is stopping or absent.
NoReader(s) == ~s.reader_thread \/ ~s.keep_running

\* What stream.recv() gives: bytes, nothing, or an exception.
RecvOutcomes == {"data", "empty", "socket.error", "Exception"}

\* stream.recv() is being called although the reader is stopping or absent,
\* or close() has been called.
LateRead(s) == NoReader(s) \/ ~s.stream

\* while self.stream:
ReaderWhile ==
    /\ sess.rpc = "while"
    /\ sess' = IF sess.stream THEN [sess EXCEPT !.rpc = "lock1"]
               ELSE [sess EXCEPT !.rpc = "finally", !.way = "closed"]
    /\ UNCHANGED <<client, server, run, auth, ctl, dial, ctor, rd, closers, flow, shutdown>>

\* First locked block of the loop: break when keep_running is off, then
\* assert stream is not None.
ReaderLock1 ==
    /\ sess.rpc = "lock1"
    /\ sess' = IF ~sess.keep_running THEN [sess EXCEPT !.rpc = "finally", !.way = "closed"]
               ELSE IF ~sess.stream THEN [sess EXCEPT !.rpc = "except"]
               ELSE [sess EXCEPT !.rpc = "read"]
    /\ UNCHANGED <<client, server, run, auth, ctl, dial, ctor, rd, closers, flow, shutdown>>

\* reader_read_data() enters recv(): under the lock, None is returned when
\* the reader is stopping or absent; otherwise stream is copied and the
\* lock released before stream.recv().
ReaderRecv ==
    /\ sess.rpc = "read"
    /\ sess' = IF NoReader(sess) THEN [sess EXCEPT !.rpc = "lock2", !.closed = TRUE]
               ELSE [sess EXCEPT !.rpc = "call"]
    /\ UNCHANGED <<client, server, run, auth, ctl, dial, ctor, rd, closers, flow, shutdown>>

\* The reader, the lock released, calls stream.recv().
ReaderCall ==
    /\ sess.rpc = "call"
    /\ sess' = [sess EXCEPT !.rpc = "io", !.late = @ \/ LateRead(sess)]
    /\ UNCHANGED <<client, server, run, auth, ctl, dial, ctor, rd, closers, flow, shutdown>>

\* stream.recv() of the reader returns or raises.
ReaderIo(outcome) ==
    /\ sess.rpc = "io"
    /\ outcome = "data" => sess.nreads < MaxReads /\ sess.chan = "open"
    /\ sess' = [sess EXCEPT
                  !.nreads = IF outcome = "data" THEN @ + 1 ELSE @,
                  !.closed = (outcome = "empty"),
                  !.rpc = IF outcome \in {"data", "empty"} THEN "lock2"
                          ELSE IF outcome = "socket.error" THEN "except_socket"
                          ELSE "except"]
    /\ UNCHANGED <<client, server, run, auth, ctl, dial, ctor, rd, closers, flow, shutdown>>

\* Second locked block of the loop: a zero-length read turns keep_running
\* off; break when it is off.
ReaderLock2 ==
    /\ sess.rpc = "lock2"
    /\ sess' = IF sess.closed \/ ~sess.keep_running
               THEN [sess EXCEPT !.keep_running = FALSE, !.rpc = "finally",
                                 !.way = IF sess.closed THEN "zero" ELSE "closed"]
               ELSE [sess EXCEPT !.rpc = "while"]
    /\ UNCHANGED <<client, server, run, auth, ctl, dial, ctor, rd, closers, flow, shutdown>>

\* except socket.error: self.close()
ReaderExceptSocket ==
    /\ sess.rpc = "except_socket"
    /\ sess' = [SessionClosed(sess) EXCEPT !.rpc = "finally", !.way = "socket.error"]
    /\ UNCHANGED <<client, server, run, auth, ctl, dial, ctor, rd, closers, flow, shutdown>>

\* Mutation: the handler returns past the finally clause when keep_running
\* is off.
AfterStoppedReturn == "exited"

\* Where the handler of an unexpected exception goes when keep_running is
\* off: it logs and falls into the finally clause.
AfterStopped == "finally"

\* except Exception: keep_running is read under the lock.
ReaderExcept ==
    /\ sess.rpc = "except"
    /\ sess' = IF sess.keep_running THEN [sess EXCEPT !.rpc = "except_close"]
               ELSE [sess EXCEPT !.rpc = AfterStopped, !.way = "Exception stopped"]
    /\ UNCHANGED <<client, server, run, auth, ctl, dial, ctor, rd, closers, flow, shutdown>>

\* ... and, it being on, the error is logged and self.close() called.
ReaderExceptClose ==
    /\ sess.rpc = "except_close"
    /\ sess' = [SessionClosed(sess) EXCEPT !.rpc = "finally", !.way = "Exception running"]
    /\ UNCHANGED <<client, server, run, auth, ctl, dial, ctor, rd, closers, flow, shutdown>>

\* finally: self.reader_exits(); the thread ends.
ReaderFinally ==
    /\ sess.rpc = "finally"
    /\ sess' = [sess EXCEPT !.rpc = "exited", !.exits = @ + 1]
    /\ UNCHANGED <<client, server, run, auth, ctl, dial, ctor, rd, closers, flow, shutdown>>

\* Another thread calls recv(): the locked block.
CallerRecv ==
    /\ sess.chan # "none"
    /\ sess.cpc = "idle"
    /\ sess' = IF NoReader(sess) THEN [sess EXCEPT !.cpc = "returned", !.result = "None"]
               ELSE [sess EXCEPT !.cpc = "call"]
    /\ UNCHANGED <<client, server, run, auth, ctl, dial, ctor, rd, closers, flow, shutdown>>

\* ... then, the lock released, it calls stream.recv().
CallerCall ==
    /\ sess.cpc = "call"
    /\ sess' = [sess EXCEPT !.cpc = "io", !.late = @ \/ LateRead(sess)]
    /\ UNCHANGED <<client, server, run, auth, ctl, dial, ctor, rd, closers, flow, shutdown>>

\* ... which returns or raises.
CallerIo(outcome) ==
    /\ sess.cpc = "io"
    /\ outcome = "data" => sess.chan = "open"
    /\ sess' = [sess EXCEPT !.cpc = "returned", !.result = outcome]
    /\ UNCHANGED <<client, server, run, auth, ctl, dial, ctor, rd, closers, flow, shutdown>>

NextSession ==
    \/ \E reader \in BOOLEAN : SessionNew(reader)
    \/ SessionClose
    \/ ReaderWhile
    \/ ReaderLock1
    \/ ReaderRecv
    \/ ReaderCall
    \/ \E outcome \in RecvOutcomes : ReaderIo(outcome)
    \/ ReaderLock2
    \/ ReaderExceptSocket
    \/ ReaderExcept
    \/ ReaderExceptClose
    \/ ReaderFinally
    \/ CallerRecv
    \/ CallerCall
    \/ \E outcome \in RecvOutcomes : CallerIo(outcome)

SpecSession == Init /\ [][NextSession]_vars

\* ============================================================ properties
\* Transports the pool holds.
Pooled == {e[2][2] : e \in PoolEntries}

\* The in-use counts of the entries that hold transport t.
CountsOf(t) == {e[2][3] : e \in {x \in PoolEntries : x[2][2] = t}}

\* Sum of the in-use counts of the first n entries of a list.
RECURSIVE CountSum(_, _)
CountSum(entries, n) == IF n = 0 THEN 0 ELSE entries[n][3] + CountSum(entries, n - 1)

\* Sum of the in-use counts of the pool entries of key k.
KeyCount(k) == IF k \in DOMAIN ssh_sockets
               THEN CountSum(ssh_sockets[k], Len(ssh_sockets[k])) ELSE 0

\* Sessions that obtained a transport under key k and have not released it:
\* the handle is in self.ssh, or in tmp on its way to release_ssh_socket.
Borrowers(k) ==
    BagCount(sessions, {r \in DOMAIN sessions : r.key = k /\ (r.ssh # None \/ r.tmp # None)})

\* C1: every pool entry's in-use count is within 0..MAXCHANNELS, under any
\* interleaving of get, release and timer expiry.
C1_CountWithinCap == \A e \in PoolEntries : e[2][3] >= 0 /\ e[2][3] <= MAXCHANNELS

\* An entry sits at the cap, a further get has made a second entry, and a
\* release has brought that one down to 0.
C1_Witness ==
    /\ \E e \in PoolEntries : e[2][3] = MAXCHANNELS
    /\ \E e \in PoolEntries : e[2][3] = 0

\* The same, leaving out the sessions whose transport has been closed.
OpenBorrowers(k) ==
    BagCount(sessions, {r \in DOMAIN sessions :
                          r.key = k /\ (r.ssh \in ssh_open \/ r.tmp \in ssh_open)})

C3_TimerIffIdle ==
    \A t \in LiveSocks \ {None} :
        t \in DOMAIN ssh_socket_timeout <=> (0 \in CountsOf(t) /\ t \in ssh_open)

\* One idle transport whose timer fired and waits for the mutex, next to a
\* transport in use.
C3_Witness ==
    /\ \E t \in DOMAIN ssh_socket_timeout : ssh_socket_timeout[t] = "fired"
    /\ \E t \in Pooled : t \notin DOMAIN ssh_socket_timeout

\* C4: a timer callback never closes a transport whose in-use count is above
\* 0: such a transport and its byte stream are still open after every step.
C4_InUseNeverClosed ==
    [][\A e \in PoolEntries :
          e[2][3] > 0 => (e[2][2] \in ssh_open' /\ e[2][1] \in os_open')]_vars

\* A timer fired, then a get cancelled it and raised the count: its callback
\* is waiting for the mutex while the transport is in use.
C4_Witness ==
    \E tm \in DOMAIN timers :
        /\ tm.state = "fired"
        /\ \E c \in CountsOf(tm.sock) : c > 0

\* Total number of release_ssh_socket calls made by sessions.
RECURSIVE ReleasedSum(_, _)
ReleasedSum(b, S) ==
    IF S = {} THEN 0
    ELSE LET r == CHOOSE x \in S : TRUE
         IN  b[r] * r.released + ReleasedSum(b, S \ {r})

TotalReleased == ReleasedSum(sessions, DOMAIN sessions)

\* C5: however often close() is called on a session, it calls release once,
\* and a close() on a closed session changes nothing in the cache.
C5_CloseOnce ==
    /\ [](\A r \in DOMAIN sessions :
             r.released <= 1 /\ (r.pc = "closed" => r.released = 1 /\ r.ssh = None))
    /\ [][nreclose' # nreclose =>
             cache' = cache /\ sockstate' = sockstate /\ timers' = timers
             /\ TotalReleased' = TotalReleased]_vars

\* close() was called again on a closed session while its transport is still
\* pooled.
C5_Witness ==
    /\ nreclose > 0
    /\ \E r \in DOMAIN sessions : r.pc = "closed" /\ r.released = 1
    /\ Pooled # {}

\* C6: right after flush() the pool, the reverse map and the timer map are
\* empty and every transport and byte stream that was pooled is closed.
C6_FlushEmpties ==
    [][nflush' # nflush =>
          /\ PoolEntries' = {}
          /\ DOMAIN ssh_socket_keys' = {}
          /\ DOMAIN ssh_socket_timeout' = {}
          /\ \A e \in PoolEntries : e[2][2] \notin ssh_open' /\ e[2][1] \notin os_open']_vars

\* flush() ran while a session held a transport and while a timer that had
\* fired was pending.
C6_Witness ==
    /\ nflush > 0
    /\ PoolEntries = {}
    /\ \E r \in DOMAIN sessions : r.ssh # None /\ r.ssh \notin ssh_open
    /\ \E tm \in DOMAIN timers : tm.state = "fired"

\* Number of entries the pool holds for key k.
EntryCount(k) == IF k \in DOMAIN ssh_sockets THEN Len(ssh_sockets[k]) ELSE 0

\* Every session constructed so far holds a transport: none failed, none is
\* being closed or is closed, none is still inside get.
NoneClosed == \A r \in DOMAIN sessions : r.pc \in {"got", "open"}

\* C7: with n sessions opened to one endpoint and none closed, the pool
\* holds ceil(n / MAXCHANNELS) entries for its key.
C7_CeilEntries ==
    NoneClosed => EntryCount(CapKey) = (nsessions + MAXCHANNELS - 1) \div MAXCHANNELS

\* The get after MAXCHANNELS sessions made a second transport.
C7_Witness ==
    /\ NoneClosed
    /\ nsessions = MAXCHANNELS + 1
    /\ EntryCount(CapKey) = 2

\* Every session constructed so far is closed or failed to open.
AllClosed ==
    /\ nsessions > 0
    /\ \A r \in DOMAIN sessions : r.pc \in {"closed", "failed"}

\* The pool is empty, or holds one entry, for key k, idle with a timer.
EmptyOrIdle(k) ==
    \/ PoolEntries = {}
    \/ /\ EntryCount(k) = 1
       /\ Cardinality(PoolEntries) = 1
       /\ ssh_sockets[k][1][3] = 0
       /\ ssh_sockets[k][1][2] \in DOMAIN ssh_socket_timeout

\* C8: after one session was opened and closed the pool is empty or holds
\* one idle entry with a pending timer; and once every session is closed and
\* no get follows, the pool eventually holds no entry.
C8_IdleThenEmpty ==
    /\ [](\A r \in DOMAIN sessions :
             (nsessions = 1 /\ r.pc = "closed") => EmptyOrIdle(r.key))
    /\ (AllClosed ~> (PoolEntries = {} \/ ~AllClosed))

\* The one session was closed and the timer has torn the transport down.
C8_Witness ==
    /\ nsessions = 1
    /\ \E r \in DOMAIN sessions : r.pc = "closed"
    /\ "a:22:u" \in DOMAIN ssh_sockets
    /\ PoolEntries = {}
    /\ ssh_open = {}

\* Entries of the pool without their counts.
Shape(pool) == [k \in DOMAIN pool |-> [i \in 1..Len(pool[k]) |-> <<pool[k][i][1], pool[k][i][2]>>]]

\* A Timer callback for t is waiting for the mutex.
CallbackPending(t) ==
    \/ t \in DOMAIN ssh_socket_timeout /\ ssh_socket_timeout[t] = "fired"
    \/ Detached(t, "fired") \in DOMAIN timers

\* C9: release closes nothing and removes nothing: it changes a count, and
\* an entry whose count reached 0 stays in the pool with a timer recorded.
\* A pooled transport is closed only by a timer callback.
C9_ReleaseDefers ==
    [][/\ TotalReleased' # TotalReleased =>
             /\ sockstate' = sockstate
             /\ ssh_socket_keys' = ssh_socket_keys
             /\ Shape(ssh_sockets') = Shape(ssh_sockets)
             /\ timers' = timers
             /\ \A e \in PoolEntries' :
                   IF e[2][3] = 0
                   THEN e[2][2] \in DOMAIN ssh_socket_timeout' /\ e[2][2] \in ssh_open'
                   ELSE e[2][2] \in DOMAIN ssh_socket_timeout' <=>
                        e[2][2] \in DOMAIN ssh_socket_timeout
       /\ \A t \in (ssh_open \ ssh_open') \cap Pooled : CallbackPending(t)]_vars

\* One release left its entry in use, another brought an entry to 0, which
\* is still pooled and open with its timer.
C9_Witness ==
    /\ \E e \in PoolEntries : e[2][3] = 0 /\ e[2][2] \in ssh_open
                              /\ e[2][2] \in DOMAIN ssh_socket_timeout
    /\ \E e \in PoolEntries : e[2][3] > 0
    /\ TotalReleased >= 2

\* Number of sessions whose construction failed inside get_ssh_socket.
FailedCount == BagCount(sessions, {r \in DOMAIN sessions : r.pc = "failed"})

\* C10: a get that fails leaves the pool, the reverse map and the timer map
\* as they were when it started.
C10_FailedGetNoTrace ==
    [][FailedCount' # FailedCount => Maps' = pre]_vars

\* A get failed while the pool held a transport in use and an idle one with
\* its timer.
C10_Witness ==
    /\ FailedCount > 0
    /\ \E e \in PoolEntries : e[2][3] > 0
    /\ DOMAIN ssh_socket_timeout # {}

\* C11: whenever get fails after the byte stream was connected, whatever the
\* exception, that byte stream is closed when the error leaves get.
C11_FailedGetClosesStream ==
    [][(FailedCount' # FailedCount /\ ossock # None) => ossock \notin os_open']_vars

\* C12: a second (IPv4) bind failing with EADDRINUSE is swallowed and the
\* constructor succeeds with the IPv6 listener alone; a second bind failing
\* with any other error makes the constructor fail.
C12_SecondBindTolerated ==
    /\ bind_error = "EADDRINUSE" => (Constructed /\ "v6" \in listening)
    /\ bind_error \in BindErrors \ {"EADDRINUSE"} => srv_pc = "raised"

\* Every accept thread that was started has ended.
AcceptThreadsExited == \A th \in AThreads : apc[th] \in {"unstarted", "exited"}

Accepted == {c \in DOMAIN ss : ss[c].origin = "accept"}

\* Server socket c is closed: its transport and its client socket are
\* closed and so is every session made on it.
SockClosed(c) == ~ss[c].ssh /\ ~ss[c].client_socket /\ OpenSessions(c) = {}

\* C14: when close() followed by join() has returned, every listen socket
\* and close pipe is closed and every server socket the server accepted is
\* closed with all of its sessions.
C14_JoinedAllClosed ==
    srv_pc = "joined" =>
        /\ listening = {}
        /\ pipes = {}
        /\ \A c \in Accepted : SockClosed(c)

\* The step in which accept thread th leaves the construction of a server
\* socket without having built it.
BuildFailed(th) ==
    /\ apc[th] = "building"
    /\ apc'[th] # "building"
    /\ acur[th] \notin DOMAIN ss'

\* C15: a failure while building the server socket of an accepted client
\* leaves the server's socket list unchanged and the accept thread running,
\* back at select() on its still open listen socket.
C15_ClientFailureKeepsAccepting ==
    [][\A th \in AThreads :
          BuildFailed(th) =>
              /\ sockets' = sockets
              /\ apc'[th] = "select"
              /\ th \in listening']_vars

\* The first client failed while its server socket was built, the second
\* client was accepted and is in the list, and both threads are at select().
C15_Witness ==
    /\ nsrvfaults > 0
    /\ nconns = 2
    /\ 1 \notin DOMAIN ss
    /\ 2 \in DOMAIN ss
    /\ sockets = <<2>>
    /\ \A th \in AThreads : apc[th] = "select" /\ acur[th] = None

\* Server sockets that call_home built.
CalledHome == {c \in DOMAIN ss : ss[c].origin = "call_home"}

\* C16: a connection made by call_home is in the server's socket list until
\* shutdown takes it out, and when close() followed by join() has returned
\* its transport and its client socket are closed.
C16_CallHomeClosedAtShutdown ==
    /\ \A c \in CalledHome : ss[c].ssh => (\E j \in 1..Len(sockets) : sockets[j] = c)
    /\ srv_pc = "joined" => \A c \in CalledHome : ~ss[c].ssh /\ ~ss[c].client_socket

\* Sessions that hold a transport: from the return of get to the return
\* of release.
Holders == {r \in DOMAIN sessions : r.ssh # None \/ r.tmp # None}

\* The transports those sessions hold.
HeldTransports == ({r.ssh : r \in Holders} \cup {r.tmp : r \in Holders}) \ {None}

\* C17: with the no-cache variant the open transports are exactly the ones
\* live sessions hold, one each (so every get built a new one and every
\* release closed its own), each with its byte stream open, and no timer is
\* ever scheduled and nothing is ever pooled.
C17_NoCacheOneTransportPerSession ==
    /\ ssh_open = HeldTransports
    /\ os_open = ssh_open
    /\ Cardinality(ssh_open) = BagCount(sessions, Holders)
    /\ ssh_socket_timeout = EmptyDict
    /\ timers = EmptyDict
    /\ ssh_sockets = EmptyDict

\* Two sessions hold transports while a third has released its own.
C17_Witness ==
    /\ Cardinality(ssh_open) = 2
    /\ BagCount(sessions, Holders) = 2
    /\ \E r \in DOMAIN sessions : r.pc = "closed" /\ r.released = 1

\* C18: a one-shot command collects the exit code only after it has read
\* stdout to EOF and then stderr to EOF; the session is closed after that.
C18_ExitCodeAfterDrain ==
    /\ run.exit_code # NoExit => (run.out_eof /\ run.err_eof)
    /\ run.err_eof => run.out_eof
    /\ run.pc = "returned" => run.exit_code # NoExit

\* The sessions run_status_stderr has been called on and has left.
Ran == {r \in DOMAIN sessions : r.pc = "ran"}

\* The sessions a run_status_stderr call is working on.
Running == {r \in DOMAIN sessions : r.pc \in {"running", "cmd_releasing"}}

\* C19: once run_status_stderr has returned or raised, whatever the outcome,
\* the command's channel is closed and its transport handle given up with
\* exactly one release, which the pool's counts reflect.
C19_CommandAlwaysReleases ==
    /\ run.pc \in {"returned", "raised"} =>
           /\ BagCount(sessions, Running) = 0
           /\ BagCount(sessions, Ran) = run.n
    /\ \A r \in Ran : ~r.chan /\ r.ssh = None /\ r.tmp = None /\ r.released = 1
    /\ KeyCount(CapKey) = Borrowers(CapKey)

\* A second command has raised after a first one returned; both sessions
\* are released and the transport they shared waits for its timer, idle.
C19_Witness ==
    /\ run.pc = "raised"
    /\ run.n = 2
    /\ BagCount(sessions, Ran) = 2
    /\ KeyCount(CapKey) = 0
    /\ ssh_socket_timeout # EmptyDict

\* The step in which an injected failure takes session r out of the state
\* "transport obtained" or "channel open": open_session or invoke_subsystem
\* raised while r was being constructed.
ConstructionFails(r) ==
    /\ r.pc \in {"got", "open"}
    /\ nfaults' # nfaults
    /\ sessions' # sessions
    /\ (r \notin DOMAIN sessions' \/ sessions'[r] < sessions[r])

\* The step in which session r returns from release_ssh_socket.
Releases(r) ==
    /\ r.pc = "releasing"
    /\ sessions' = BagReplace(sessions, r,
                      [r EXCEPT !.pc = "closed", !.tmp = None, !.released = @ + 1])

\* C20: a session whose construction fails at open_session or at
\* invoke_subsystem goes into close() with its channel cleared and its handle
\* moved to tmp, the pool and the sockets being untouched; the release that
\* follows is that session's first, lowers the count of its transport's key
\* by one and leaves every other count alone, and the transport stays open
\* and pooled, with a close timer if its count became 0.
C20_FailedConstructionReleases ==
    [][\A r \in DOMAIN sessions :
          /\ ConstructionFails(r) =>
                 /\ sessions' = BagReplace(sessions, r, CloseBegin(r))
                 /\ CloseBegin(r).tmp = r.ssh /\ CloseBegin(r).ssh = None
                 /\ ~CloseBegin(r).chan
                 /\ Maps' = Maps
                 /\ sockstate' = sockstate
          /\ Releases(r) =>
                 /\ r.released = 0
                 /\ r.tmp \in Pooled'
                 /\ r.tmp \in ssh_open'
                 /\ KeyCount(r.key)' = KeyCount(r.key) - 1
                 /\ \A k \in Keys \ {r.key} : KeyCount(k)' = KeyCount(k)
                 /\ \A t \in Pooled \ {r.tmp} : CountsOf(t)' = CountsOf(t)
                 /\ 0 \in CountsOf(r.tmp)' => r.tmp \in DOMAIN ssh_socket_timeout']_vars

\* A construction failed (the one failure was neither a dial nor an
\* authentication failure nor a failing Transport.close()) and that session
\* has released, while another session still holds the same transport.
C20_Witness ==
    /\ nfaults = 1
    /\ \A r \in DOMAIN sessions : r.pc # "failed"
    /\ os_open = ssh_open
    /\ \E r \in DOMAIN sessions : r.pc = "closed" /\ r.released = 1 /\ KeyCount(r.key) = 1
    /\ \E r \in DOMAIN sessions : r.pc = "open"
    /\ Cardinality(ssh_open) = 1
    /\ BagCount(sessions, DOMAIN sessions) = 2

\* The run has delivered through method m.
Delivered(m) == run.caller = m /\ run.outcome.kind # "none"

\* C21: run() and run_stderr() raise CalledProcessError with the exit code,
\* the command, stdout and stderr exactly when the exit code is not 0 and
\* otherwise return the captured output; run_status() and
\* run_status_stderr() return the exit code whatever it is.
C21_RaiseIffNonZero ==
    /\ \A m \in {"run", "run_stderr"} : Delivered(m) =>
           /\ run.outcome.kind = "raise" <=> run.exit_code # 0
           /\ run.outcome.kind = "raise" =>
                  run.outcome.value = CalledProcessError(run.exit_code, Command,
                                                         run.output, run.error_output)
           /\ run.outcome.kind = "return" => run.outcome.value.output = run.output
    /\ Delivered("run_stderr") /\ run.outcome.kind = "return" =>
           run.outcome.value.error_output = run.error_output
    /\ \A m \in {"run_status", "run_status_stderr"} : Delivered(m) =>
           /\ run.outcome.kind = "return"
           /\ run.outcome.value.status = run.exit_code
           /\ run.outcome.value.output = run.output

\* run() has raised for a command that exited with status 2 after writing
\* to stdout and stderr.
C21_Witness ==
    /\ Delivered("run")
    /\ run.exit_code = 2
    /\ run.outcome.kind = "raise"
    /\ run.output > 0
    /\ run.error_output > 0

\* The authentication block was left and no credential had been accepted.
NoCredentialSucceeded ==
    /\ auth.pc = "done"
    /\ auth.password # "ok"
    /\ \A i \in 1..Len(auth.keys) : auth.keys[i].answer # "ok"

\* C22: when no credential succeeds, whatever the password and the number
\* of keys, the block fails with AuthenticationException, raised by the
\* last method that was attempted.
C22_LastAuthErrorSurfaces ==
    NoCredentialSucceeded =>
        /\ auth.result = "AuthenticationException"
        /\ auth.attempts # <<>>
        /\ auth.raised_by = auth.attempts[Len(auth.attempts)]

\* Every credential of the call in the order the claim gives: the password
\* when there is one, the agent's keys in order, the process-global key.
Credentials ==
    (IF auth.password # "none" THEN <<<<"password", 0>>>> ELSE <<>>)
    \o [i \in 1..Len(auth.keys) |-> auth.keys[i].name]

\* The server's answer to the credential at position i of that order.
AnswerAt(i) ==
    IF auth.password # "none"
    THEN IF i = 1 THEN auth.password ELSE auth.keys[i - 1].answer
    ELSE auth.keys[i].answer

\* C27: the attempts made are the credentials in order (password first, then
\* the agent's keys, then the process-global key) up to the first accepted
\* one; every failed attempt is passed over except that of the last key,
\* which is raised; and the block succeeds exactly when an attempted
\* credential was accepted.
C27_AuthOrderAndStop ==
    /\ Len(auth.attempts) <= Len(Credentials)
    /\ \A i \in 1..Len(auth.attempts) :
           /\ auth.attempts[i] = Credentials[i]
           /\ i < Len(auth.attempts) => AnswerAt(i) = "rejected"
    /\ \A i \in 1..Len(auth.keys) :
           auth.keys[i].name[1] = "private_key" => i = Len(auth.keys)
    /\ auth.pc = "done" =>
           /\ auth.result = "ok" <=>
                  \E i \in 1..Len(auth.attempts) : AnswerAt(i) = "ok"
           /\ auth.result # "ok" => auth.attempts = Credentials
           /\ auth.swallowed =
                  SelectSeq(auth.attempts,
                            LAMBDA m : /\ \E i \in 1..Len(auth.attempts) :
                                            auth.attempts[i] = m /\ AnswerAt(i) = "rejected"
                                       /\ ~(m[1] # "password" /\ auth.keys # <<>>
                                             /\ m = auth.keys[Len(auth.keys)].name))
           /\ (auth.keys # <<>> /\ auth.result # "ok") =>
                  /\ auth.result = "AuthenticationException"
                  /\ auth.raised_by = auth.keys[Len(auth.keys)].name

\* A wrong password and a refused first agent key were passed over and the
\* second agent key was accepted, so the process-global key was not tried.
C27_Witness ==
    /\ auth.pc = "done"
    /\ auth.result = "ok"
    /\ auth.attempts = <<<<"password", 0>>, KeyName(1), KeyName(2)>>
    /\ auth.swallowed = <<<<"password", 0>>, KeyName(1)>>
    /\ Len(auth.keys) = 3

\* C23: the controller answers a password request with success exactly when
\* user name and password are the configured pair, refuses every 'none'
\* request, opens a channel only of kind "session", and grants a subsystem
\* request exactly when its name is "netconf".
C23_ControllerDecisions ==
    LET last == ctl.last
    IN  /\ last.call = "check_auth_password" =>
               /\ last.result \in {"AUTH_SUCCESSFUL", "AUTH_FAILED"}
               /\ last.result = "AUTH_SUCCESSFUL" <=>
                      (last.args[1] = ctl.username /\ last.args[2] = ctl.password)
        /\ last.call = "check_auth_none" => last.result = "AUTH_FAILED"
        /\ last.call = "check_channel_request" =>
               (last.result = "OPEN_SUCCEEDED" <=> last.args[1] = "session")
        /\ last.call = "check_channel_subsystem_request" =>
               /\ last.result \in BOOLEAN
               /\ last.result <=> last.args[1] = "netconf"

\* A password request with the right user name and the wrong password was
\* refused.
C23_Witness ==
    /\ ctl.made
    /\ ctl.last.call = "check_auth_password"
    /\ ctl.last.args[1] = ctl.username
    /\ ctl.last.args[2] # ctl.password
    /\ ctl.last.result = "AUTH_FAILED"

\* The step is a call of get_ssh_socket for key k: a session object for k
\* is constructed.
GetCalled(k) ==
    /\ nsessions' = nsessions + 1
    /\ \E r \in DOMAIN sessions' :
          /\ r.key = k
          /\ (r \notin DOMAIN sessions \/ sessions'[r] > sessions[r])

\* The pool after the step differs from the pool before it in the count of
\* entry i of key k only, which is one higher.
OnlyCountRaised(k, i) ==
    /\ DOMAIN ssh_sockets' = DOMAIN ssh_sockets
    /\ \A k2 \in DOMAIN ssh_sockets :
          /\ Len(ssh_sockets'[k2]) = Len(ssh_sockets[k2])
          /\ \A j \in 1..Len(ssh_sockets[k2]) :
                 ssh_sockets'[k2][j] =
                     IF k2 = k /\ j = i
                     THEN <<ssh_sockets[k2][j][1], ssh_sockets[k2][j][2],
                            ssh_sockets[k2][j][3] + 1>>
                     ELSE ssh_sockets[k2][j]

\* C24: a get for a key with an entry whose count is below MAXCHANNELS
\* returns the transport of such an entry within the one locked step: no
\* socket is opened, no entry is added, that entry's count goes up by one
\* and nothing else in the pool changes, and the transport has no timer in
\* the timer map when the mutex is released.
C24_ReuseFrame ==
    [][\A k \in Keys :
          (GetCalled(k) /\ FreeEntries(k) # {}) =>
              \E i \in FreeEntries(k) :
                  LET t == ssh_sockets[k][i][2]
                  IN  /\ sessions' = BagAdd(sessions,
                                         [NewSession(k) EXCEPT !.pc = "got", !.ssh = t])
                      /\ OnlyCountRaised(k, i)
                      /\ ssh_socket_keys' = ssh_socket_keys
                      /\ sockstate' = sockstate
                      /\ ~ssh_sockets_lock'
                      /\ ossock' = ossock
                      /\ t \notin DOMAIN ssh_socket_timeout'
                      /\ \A u \in DOMAIN ssh_socket_timeout \ {t} :
                             /\ u \in DOMAIN ssh_socket_timeout'
                             /\ ssh_socket_timeout'[u] = ssh_socket_timeout[u]]_vars

\* A second session holds the transport the first one released: the get
\* found the idle entry and took its timer, which had already fired and so
\* lives on outside the map, out of the map.
C24_Witness ==
    /\ nsessions = 2
    /\ nfaults = 0
    /\ \E e \in PoolEntries :
          /\ e[2][3] = 1
          /\ e[2][2] \notin DOMAIN ssh_socket_timeout
          /\ \E tm \in DOMAIN timers : tm.sock = e[2][2]
          /\ \E r \in DOMAIN sessions : r.pc = "got" /\ r.ssh = e[2][2]
    /\ \E r \in DOMAIN sessions : r.pc = "closed" /\ r.released = 1

\* C25: a transport is closed only when the timer that the most recent
\* release to count 0 recorded for it has run its time; a timer of an
\* earlier release, cancelled by a get, never closes it.
C25_OnlyCurrentTimerCloses ==
    [][\A t \in ssh_open :
          t \notin ssh_open' =>
              /\ t \in DOMAIN ssh_socket_timeout
              /\ ssh_socket_timeout[t] = "fired"]_vars

\* C26: while a get is dialing, running the handshake or authenticating,
\* the mutex is not held (so that a release or a get for another endpoint,
\* which need the mutex, are not kept waiting).
C26_NoIoUnderMutex ==
    \A r \in DOMAIN sessions : r.pc \in {"dialing", "handshake"} => ~ssh_sockets_lock

\* Positions of the addresses that accept the connection.
Connectable == {i \in 1..Len(dial.addrs) : dial.addrs[i] = "ok"}

\* C28: the addresses are tried in the order returned, each at most once;
\* the loop stops at the first one that connects and that socket is used;
\* the call fails only when every address failed or resolution gave none,
\* and when addresses were tried the error raised is the last one's.
C28_DialInOrder ==
    /\ \A i \in 1..Len(dial.tried) : dial.tried[i] = i
    /\ Len(dial.tried) <= Len(dial.addrs)
    /\ \A i \in 1..(Len(dial.tried) - 1) : dial.addrs[i] # "ok"
    /\ dial.attempt = Cardinality({i \in 1..Len(dial.tried) : dial.addrs[i] # "ok"})
    /\ dial.pc = "done" =>
           /\ dial.result = "ok" <=> Connectable # {}
           /\ dial.result = "ok" =>
                  /\ dial.ossock = Min(Connectable)
                  /\ Len(dial.tried) = Min(Connectable)
           /\ (dial.result # "ok" /\ dial.addrs # <<>>) =>
                  /\ Len(dial.tried) = Len(dial.addrs)
                  /\ dial.result = dial.addrs[Len(dial.addrs)]
                  /\ dial.ossock = None
           /\ dial.addrs = <<>> => dial.result \in {"Exception", "gaierror"}

\* Two addresses failed with different errors and the third connected.
C28_Witness ==
    /\ dial.pc = "done"
    /\ dial.addrs = <<"ECONNREFUSED", "ETIMEDOUT", "ok">>
    /\ dial.result = "ok"
    /\ dial.ossock = 3
    /\ dial.attempt = 2

\* The accept thread is in the branch taken when the close pipe is readable.
Draining(th) == apc[th] \in {"drain", "sockclose", "socktransport", "sockjoin"}

\* The transport and the client socket of server socket c are closed.
TransportClosed(c) == ~ss[c].ssh /\ ~ss[c].client_socket

\* C29: an accept thread that found its close pipe readable accepts no
\* further connection, and it closes its listen socket and its close pipe
\* only when every server socket that was in the server's list at that
\* moment has been closed.
C29_DrainThenCloseListen ==
    [][\A th \in AThreads :
          /\ (Draining(th) \/ apc[th] = "exited") => apc'[th] # "building"
          /\ (th \in signal /\ apc[th] = "select") => apc'[th] # "building"
          /\ (th \in listening /\ th \notin listening') =>
                 /\ Draining(th)
                 /\ th \notin pipes'
                 /\ \A c \in asnap[th] : TransportClosed(c)]_vars

\* C30: when the constructor of a server socket has raised, whatever the
\* exception, the accepted client socket is closed.
C30_FailedCtorClosesClient ==
    (ctor.pc = "raised" /\ ctor.raised \in BuildErrors \cup {"Exception"}) =>
        ctor.n \notin ctor.open

\* C31: the reader thread calls reader_exits exactly once on every way out
\* of its loop, and not before.
C31_ReaderExitsOnce ==
    /\ sess.rpc = "exited" => sess.exits = 1
    /\ sess.rpc # "exited" => sess.exits = 0
    /\ sess.exits = 1 =>
           sess.way \in {"zero", "closed", "socket.error", "Exception running",
                         "Exception stopped"}

\* The reader thread left through the handler of an unexpected exception
\* after close() had turned keep_running off.
C31_Witness ==
    /\ sess.rpc = "exited"
    /\ sess.way = "Exception stopped"
    /\ sess.exits = 1

\* C32: under every interleaving of recv with close(), no recv starts a
\* read of the underlying channel once the reader is stopping or absent or
\* close() has been called.
C32_NoReadWhenStopping == ~sess.late

\* Number of reads the channel delivers before its first empty one.
BeforeEof(script) ==
    IF \E i \in 1..Len(script) : script[i] = 0
    THEN Min({i \in 1..Len(script) : script[i] = 0}) - 1
    ELSE Len(script)

RECURSIVE SumLens(_, _)
\* Total length of the first k reads of script.
SumLens(script, k) == IF k = 0 THEN 0 ELSE SumLens(script, k - 1) + script[k]

\* C33: read_to_eof yields, in order, exactly the chunks the channel
\* delivered before its first zero-length return, short ones included, and
\* makes no read after that return.
C33_ReadToEof ==
    /\ \A i \in 1..Len(rd.out) : rd.out[i] = i
    /\ Len(rd.out) <= BeforeEof(rd.script)
    /\ rd.output = SumLens(rd.script, Len(rd.out))
    /\ rd.pc = "recv" => rd.reads = Len(rd.out)
    /\ rd.pc = "done" =>
           /\ Len(rd.out) = BeforeEof(rd.script)
           /\ rd.reads = BeforeEof(rd.script) + 1

\* A short read, a full buffer, then nothing, then more data that is never
\* asked for.
C33_Witness ==
    /\ rd.pc = "done"
    /\ rd.script = <<1, MAXSSHBUF, 0, 1>>
    /\ rd.out = <<1, 2>>
    /\ rd.reads = 3

\* C34: with close() running in two threads on one session, the channel is
\* closed at most once and the transport released at most once, so the
\* entry's count goes down by one at most.
C34_CloseOnceInTotal ==
    /\ closers.chan_closes <= 1
    /\ closers.releases <= 1
    /\ closers.made => closers.count >= closers.first - 1

\* C35: a command that was started returns, whatever the amount of output
\* the remote process has to write.
C35_CommandReturns == (flow.pc = "status") ~> (flow.pc = "returned")

\* SSHServerSocket.close() has been called on c and has returned: the
\* transport was closed by it and the accept thread that called it has gone
\* on.
CloseReturned(c) ==
    /\ c \in DOMAIN ss
    /\ ~ss[c].ssh
    /\ ss[c].lock = Free
    /\ \A th \in AThreads : acur[th] # c

\* C36: when close() of a server socket has returned, its session list is
\* empty and every session made for one of its channels has been closed.
C36_ClosedSocketHasNoSession ==
    \A c \in DOMAIN ss :
        CloseReturned(c) =>
            /\ ss[c].sessions = <<>>
            /\ OpenSessions(c) = {}

\* C37: in every sequence of close() and join() calls the assertion of
\* close() holds: no thread recorded in self.threads is found dead.
C37_CloseAssertionHolds == ~shutdown.failed

\* Transports the pool, the reverse map or the timer map leads to.
Reachable ==
    {e[2][2] : e \in PoolEntries} \cup DOMAIN ssh_socket_keys \cup DOMAIN ssh_socket_timeout

\* The sessions that a step hands a transport to.
Handed == {r \in DOMAIN sessions' :
              /\ r.pc = "got"
              /\ sessions'[r] > (IF r \in DOMAIN sessions THEN sessions[r] ELSE 0)}

\* C38: a transport torn down by timer expiry or by flush is reachable from
\* none of the three maps, and get_ssh_socket never hands one out.
C38_NoTornDownReachable ==
    /\ [](Reachable \subseteq ssh_open)
    /\ [][\A r \in Handed : r.ssh \in ssh_open']_vars

\* A flush closed the transport a session holds, and afterwards two
\* sessions were handed the transport of a new pool entry.
C38_Witness ==
    /\ nflush > 0
    /\ \E r \in DOMAIN sessions : r.pc = "got" /\ r.ssh # None /\ r.ssh \notin ssh_open
    /\ \E e \in PoolEntries :
          /\ e[2][3] > 1
          /\ \E q \in DOMAIN sessions : q.pc = "got" /\ q.ssh = e[2][2]

\* Session r holds a transport that a flush has closed and dropped from the
\* maps, and the step ends its close() with the call of release_ssh_socket.
ReleasesFlushed(r) ==
    /\ r.pc = "releasing"
    /\ r.tmp # None
    /\ nflush > 0
    /\ r.tmp \notin ssh_open
    /\ r.tmp \notin Reachable
    /\ sessions' # sessions
    /\ r \notin DOMAIN sessions' \/ sessions'[r] < sessions[r]

\* C39: the close() of a session whose transport was flushed does not
\* raise, and it changes none of the three maps.
C39_CloseAfterFlush ==
    [][\A r \in DOMAIN sessions :
          ReleasesFlushed(r) =>
              /\ ~ReleaseRaises(r.tmp)
              /\ cache' = cache]_vars

\* Pool entries, with their key and position, that hold transport t.
HoldersOf(t) ==
    UNION {{<<k, i>> : i \in EntryIndexes(k, t)} : k \in DOMAIN ssh_sockets}

\* C40: a transport is a key of the reverse map if and only if exactly one
\* pool entry holds it, that entry is in the list of the endpoint key the
\* reverse map gives for it, and no transport is in two pool entries.
C40_ReverseMapMatchesPool ==
    /\ DOMAIN ssh_socket_keys = Pooled
    /\ \A t \in Pooled : Cardinality(HoldersOf(t)) = 1
    /\ \A t \in DOMAIN ssh_socket_keys :
          \A h \in HoldersOf(t) : h[1] = ssh_socket_keys[t]

\* An entry has been removed from one list while another transport is
\* still pooled and mapped.
C40_Witness ==
    /\ \E k \in DOMAIN ssh_sockets : Len(ssh_sockets[k]) = 0
    /\ \E t \in DOMAIN ssh_socket_keys : HoldersOf(t) # {}

TypeOK ==
    /\ ssh_sockets_lock \in BOOLEAN
    /\ \A tm \in DOMAIN timers : tm.state \in {"started", "fired"}
    /\ nsessions \in 0..MaxCapSessions

====
